---------------------------- MODULE Spec2Model ----------------------------
(***************************************************************************)
(* Model of the MQTT -> WebSocket bridge of the IoT dashboard backend:     *)
(*   - BackendMQTTService (services/mqttService.js): the upstream client,  *)
(*   - WSService (services/wsService.js): the fan-out server,              *)
(*   - routes/mqtt.js: the HTTP routes in front of the upstream client.    *)
(* JavaScript strings are modelled as sequences of one-character strings,  *)
(* so that parsing, splitting and trimming are computed, not assumed.      *)
(***************************************************************************)
EXTENDS Integers, Sequences, FiniteSets, Bags, TLC

(***************************************************************************)
(* JavaScript values.  Every value is a record of the same shape so that   *)
(* any two values can be compared.                                         *)
(***************************************************************************)
JUndefined == [kind |-> "undefined", num |-> 0, str |-> <<>>, items |-> <<>>]
JNull == [kind |-> "null", num |-> 0, str |-> <<>>, items |-> <<>>]
JTrue == [kind |-> "true", num |-> 0, str |-> <<>>, items |-> <<>>]
JFalse == [kind |-> "false", num |-> 0, str |-> <<>>, items |-> <<>>]
JNum(n) == [kind |-> "number", num |-> n, str |-> <<>>, items |-> <<>>]
JStr(s) == [kind |-> "string", num |-> 0, str |-> s, items |-> <<>>]
JArr(elems) == [kind |-> "array", num |-> 0, str |-> <<>>, items |-> elems]
JObj(members) == [kind |-> "object", num |-> 0, str |-> <<>>, items |-> members]
\* one member of an object (key, value); array elements use the empty key
Member(k, v) == [key |-> k, val |-> v]

\* JavaScript truthiness of a value (used by `&& topic`)
Truthy(v) ==
    CASE v.kind = "undefined" -> FALSE
      [] v.kind = "null" -> FALSE
      [] v.kind = "false" -> FALSE
      [] v.kind = "number" -> v.num # 0
      [] v.kind = "string" -> v.str # <<>>
      [] OTHER -> TRUE

\* obj[key] for a parsed value: undefined unless an object holding the key
GetProp(v, k) ==
    IF v.kind = "object" /\ \E i \in 1..Len(v.items) : v.items[i].key = k
    THEN v.items[CHOOSE i \in 1..Len(v.items) : v.items[i].key = k].val
    ELSE JUndefined

(***************************************************************************)
(* JSON.parse, for the JSON grammar without fractions, exponents and       *)
(* string escapes (the inputs of the model use none of them).              *)
(***************************************************************************)
IsWs(c) == c \in {" ", "\t", "\n", "\r"}
\* U+0000 to U+001F, of which a string of the model can hold these four
IsControl(c) == c \in {"\t", "\n", "\r", "\f"}
IsDigit(c) == c \in {"0", "1", "2", "3", "4", "5", "6", "7", "8", "9"}
DigitVal(c) ==
    CASE c = "0" -> 0 [] c = "1" -> 1 [] c = "2" -> 2 [] c = "3" -> 3
      [] c = "4" -> 4 [] c = "5" -> 5 [] c = "6" -> 6 [] c = "7" -> 7
      [] c = "8" -> 8 [] c = "9" -> 9

Fail == [ok |-> FALSE, val |-> JUndefined, pos |-> 0]
Ok(v, p) == [ok |-> TRUE, val |-> v, pos |-> p]

RECURSIVE SkipWs(_, _)
SkipWs(s, i) == IF i <= Len(s) /\ IsWs(s[i]) THEN SkipWs(s, i + 1) ELSE i

\* does the word w start at position i of s
StartsAt(s, i, w) ==
    /\ i + Len(w) - 1 <= Len(s)
    /\ \A k \in 1..Len(w) : s[i + k - 1] = w[k]

RECURSIVE ScanDigits(_, _, _)
ScanDigits(s, i, acc) ==
    IF i <= Len(s) /\ IsDigit(s[i])
    THEN ScanDigits(s, i + 1, 10 * acc + DigitVal(s[i]))
    ELSE [val |-> acc, pos |-> i]

\* an integer: optional minus, then 0 or a digit string without leading zero
ParseNumber(s, i) ==
    LET neg == i <= Len(s) /\ s[i] = "-"
        j == IF neg THEN i + 1 ELSE i
    IN  IF ~(j <= Len(s) /\ IsDigit(s[j])) THEN Fail
        ELSE IF s[j] = "0" THEN Ok(JNum(0), j + 1)
        ELSE LET d == ScanDigits(s, j, 0)
             IN  Ok(JNum(IF neg THEN 0 - d.val ELSE d.val), d.pos)

RECURSIVE ScanString(_, _)
\* position of the closing quote at or after i, 0 if there is none or if a
\* control character, which a string literal may not hold, comes first
ScanString(s, i) ==
    IF i > Len(s) THEN 0
    ELSE IF s[i] = "\"" THEN i
    ELSE IF s[i] = "\\" THEN 0
    ELSE IF IsControl(s[i]) THEN 0
    ELSE ScanString(s, i + 1)

\* a string literal whose opening quote is at position i
ParseString(s, i) ==
    IF ~(i <= Len(s) /\ s[i] = "\"") THEN Fail
    ELSE LET e == ScanString(s, i + 1)
         IN  IF e = 0 THEN Fail
             ELSE Ok(JStr(SubSeq(s, i + 1, e - 1)), e + 1)

\* 2^32 - 2, the largest array index, in digits
MaxIndexDigits == <<"4", "2", "9", "4", "9", "6", "7", "2", "9", "4">>
\* a < b for digit strings without leading zero
IndexLess(a, b) ==
    \/ Len(a) < Len(b)
    \/ /\ Len(a) = Len(b)
       /\ \E i \in 1..Len(a) :
             /\ \A j \in 1..(i - 1) : a[j] = b[j]
             /\ DigitVal(a[i]) < DigitVal(b[i])
\* a property name that is an array index: the canonical text of an integer
\* from 0 to 2^32 - 2
IsArrayIndex(k) ==
    /\ k # <<>>
    /\ \A i \in 1..Len(k) : IsDigit(k[i])
    /\ Len(k) = 1 \/ k[1] # "0"
    /\ ~IndexLess(MaxIndexDigits, k)

\* set obj[k] = v: a repeated key keeps its place and takes the later value;
\* a new key that is an array index goes among the index keys, which come
\* first in ascending order, and any other new key goes last
ObjSet(members, k, v) ==
    IF \E i \in 1..Len(members) : members[i].key = k
    THEN [i \in 1..Len(members) |->
            IF members[i].key = k THEN Member(k, v) ELSE members[i]]
    ELSE IF IsArrayIndex(k)
    THEN LET before == SelectSeq(members,
                           LAMBDA m : IsArrayIndex(m.key) /\ IndexLess(m.key, k))
             after == SelectSeq(members,
                          LAMBDA m : ~(IsArrayIndex(m.key) /\ IndexLess(m.key, k)))
         IN  before \o <<Member(k, v)>> \o after
    ELSE Append(members, Member(k, v))

RECURSIVE ParseValue(_, _), ParseElements(_, _, _), ParseMembers(_, _, _)

\* the elements of an array, from the first element's position
ParseElements(s, i, acc) ==
    LET r == ParseValue(s, i)
    IN  IF ~r.ok THEN Fail
        ELSE LET j == SkipWs(s, r.pos)
                 acc2 == Append(acc, Member(<<>>, r.val))
             IN  IF j > Len(s) THEN Fail
                 ELSE IF s[j] = "," THEN ParseElements(s, j + 1, acc2)
                 ELSE IF s[j] = "]" THEN Ok(JArr(acc2), j + 1)
                 ELSE Fail

\* the members of an object, from the first key's position
ParseMembers(s, i, acc) ==
    LET k == ParseString(s, SkipWs(s, i))
    IN  IF ~k.ok THEN Fail
        ELSE LET c == SkipWs(s, k.pos)
             IN  IF ~(c <= Len(s) /\ s[c] = ":") THEN Fail
                 ELSE LET r == ParseValue(s, c + 1)
                      IN  IF ~r.ok THEN Fail
                          ELSE LET j == SkipWs(s, r.pos)
                                   acc2 == ObjSet(acc, k.val.str, r.val)
                               IN  IF j > Len(s) THEN Fail
                                   ELSE IF s[j] = "," THEN ParseMembers(s, j + 1, acc2)
                                   ELSE IF s[j] = "}" THEN Ok(JObj(acc2), j + 1)
                                   ELSE Fail

ParseValue(s, i0) ==
    LET i == SkipWs(s, i0)
    IN  IF i > Len(s) THEN Fail
        ELSE IF StartsAt(s, i, <<"n", "u", "l", "l">>) THEN Ok(JNull, i + 4)
        ELSE IF StartsAt(s, i, <<"t", "r", "u", "e">>) THEN Ok(JTrue, i + 4)
        ELSE IF StartsAt(s, i, <<"f", "a", "l", "s", "e">>) THEN Ok(JFalse, i + 5)
        ELSE IF s[i] = "\"" THEN ParseString(s, i)
        ELSE IF s[i] = "-" \/ IsDigit(s[i]) THEN ParseNumber(s, i)
        ELSE IF s[i] = "["
             THEN LET j == SkipWs(s, i + 1)
                  IN  IF j <= Len(s) /\ s[j] = "]" THEN Ok(JArr(<<>>), j + 1)
                      ELSE ParseElements(s, i + 1, <<>>)
        ELSE IF s[i] = "{"
             THEN LET j == SkipWs(s, i + 1)
                  IN  IF j <= Len(s) /\ s[j] = "}" THEN Ok(JObj(<<>>), j + 1)
                      ELSE ParseMembers(s, i + 1, <<>>)
        ELSE Fail

\* JSON.parse(text): ok = FALSE stands for the SyntaxError it throws
JsonParse(s) ==
    LET r == ParseValue(s, 1)
    IN  IF r.ok /\ SkipWs(s, r.pos) > Len(s)
        THEN [ok |-> TRUE, val |-> r.val]
        ELSE [ok |-> FALSE, val |-> JUndefined]

(***************************************************************************)
(* JSON.stringify and String(), for the values above.                      *)
(***************************************************************************)
DigitChar(d) ==
    CASE d = 0 -> "0" [] d = 1 -> "1" [] d = 2 -> "2" [] d = 3 -> "3"
      [] d = 4 -> "4" [] d = 5 -> "5" [] d = 6 -> "6" [] d = 7 -> "7"
      [] d = 8 -> "8" [] d = 9 -> "9"

RECURSIVE NatToChars(_)
NatToChars(n) ==
    IF n < 10 THEN <<DigitChar(n)>>
    ELSE Append(NatToChars(n \div 10), DigitChar(n % 10))

IntToChars(n) == IF n < 0 THEN <<"-">> \o NatToChars(0 - n) ELSE NatToChars(n)

\* a character of a string as JSON.stringify writes it
EscapeChar(c) ==
    CASE c = "\"" -> <<"\\", "\"">>
      [] c = "\\" -> <<"\\", "\\">>
      [] c = "\t" -> <<"\\", "t">>
      [] c = "\n" -> <<"\\", "n">>
      [] c = "\r" -> <<"\\", "r">>
      [] c = "\f" -> <<"\\", "f">>
      [] OTHER -> <<c>>
RECURSIVE Escape(_)
Escape(s) == IF s = <<>> THEN <<>> ELSE EscapeChar(Head(s)) \o Escape(Tail(s))
Quote(s) == <<"\"">> \o Escape(s) \o <<"\"">>

RECURSIVE JsonStringify(_), StringifyItems(_, _, _)
\* the items of an array (keyed = FALSE) or object (keyed = TRUE), comma-separated
StringifyItems(items, i, keyed) ==
    IF i > Len(items) THEN <<>>
    ELSE (IF i > 1 THEN <<",">> ELSE <<>>)
         \o (IF keyed THEN Quote(items[i].key) \o <<":">> ELSE <<>>)
         \o JsonStringify(items[i].val)
         \o StringifyItems(items, i + 1, keyed)

\* JSON.stringify(v): a member that is undefined is left out of an object,
\* an element that is undefined is written as null
JsonStringify(v) ==
    CASE v.kind = "null" -> <<"n", "u", "l", "l">>
      [] v.kind = "true" -> <<"t", "r", "u", "e">>
      [] v.kind = "false" -> <<"f", "a", "l", "s", "e">>
      [] v.kind = "number" -> IntToChars(v.num)
      [] v.kind = "string" -> Quote(v.str)
      [] v.kind = "array" ->
            <<"[">>
            \o StringifyItems([i \in 1..Len(v.items) |->
                                  IF v.items[i].val.kind = "undefined"
                                  THEN Member(<<>>, JNull) ELSE v.items[i]], 1, FALSE)
            \o <<"]">>
      [] v.kind = "object" ->
            <<"{">>
            \o StringifyItems(SelectSeq(v.items, LAMBDA m : m.val.kind # "undefined"),
                               1, TRUE)
            \o <<"}">>
      [] OTHER -> <<>>

\* String(v) for the values that are not objects
ToStr(v) ==
    CASE v.kind = "string" -> v.str
      [] v.kind = "number" -> IntToChars(v.num)
      [] v.kind = "undefined" ->
            <<"u", "n", "d", "e", "f", "i", "n", "e", "d">>
      [] OTHER -> JsonStringify(v)

\* typeof v === 'object' (null, arrays and objects)
TypeofObject(v) == v.kind \in {"null", "array", "object"}

(***************************************************************************)
(* str.split(',').map(t => t.trim()).filter(Boolean)                       *)
(***************************************************************************)
RECURSIVE SplitAt(_, _, _, _)
\* s.split(sep) from position i on, cur being the piece collected so far
SplitAt(s, sep, i, cur) ==
    IF i > Len(s) THEN <<cur>>
    ELSE IF s[i] = sep THEN <<cur>> \o SplitAt(s, sep, i + 1, <<>>)
    ELSE SplitAt(s, sep, i + 1, Append(cur, s[i]))

Split(s, sep) == SplitAt(s, sep, 1, <<>>)

\* the white space String.prototype.trim removes, of which a string of the
\* model can hold these five (not the vertical tab, U+00A0, U+FEFF and the
\* other Unicode spaces)
IsTrimWs(c) == c \in {" ", "\t", "\n", "\r", "\f"}
RECURSIVE TrimStart(_), TrimEnd(_)
TrimStart(s) == IF s # <<>> /\ IsTrimWs(Head(s)) THEN TrimStart(Tail(s)) ELSE s
TrimEnd(s) ==
    IF s # <<>> /\ IsTrimWs(s[Len(s)]) THEN TrimEnd(SubSeq(s, 1, Len(s) - 1)) ELSE s
Trim(s) == TrimEnd(TrimStart(s))

NonEmpty(s) == s # <<>>
MapTrim(pieces) == [i \in 1..Len(pieces) |-> Trim(pieces[i])]

\* the topic list of a comma-separated string
TopicList(s) == SelectSeq(MapTrim(Split(s, ",")), NonEmpty)

Range(f) == {f[i] : i \in DOMAIN f}

(***************************************************************************)
(* Inputs of the model.                                                    *)
(***************************************************************************)
TopicAB == <<"a", "/", "b">>
TopicCD == <<"c", "/", "d">>
Wildcard == <<"#">>
Topics == {TopicAB, TopicCD}

PayloadNum == <<"4", "2">>
PayloadText == <<"n", "o", "t", " ", "j", "s", "o", "n">>
PayloadObj == <<"{", "\"", "v", "\"", ":", "1", "}">>
Payloads == {PayloadNum, PayloadText, PayloadObj}

\* message values handed to publish(): a number, a string, an object
Messages == {JNum(42), JStr(PayloadText), JObj(<<Member(<<"v">>, JNum(1))>>)}

\* process.env: the variables the program reads (<<>>: not set, or set to
\* the empty string)
EnvUnset ==
    [MQTT_SUBSCRIBE_TOPICS |-> <<>>, MQTT_CLIENT_ID |-> <<>>, FRONTEND_URL |-> <<>>,
     RATE_LIMIT_WINDOW_MS |-> <<>>, RATE_LIMIT_MAX_REQUESTS |-> <<>>]
\* MQTT_SUBSCRIBE_TOPICS="a/b, c/d" and MQTT_CLIENT_ID=dash-1
EnvTwoTopics ==
    [EnvUnset EXCEPT !.MQTT_SUBSCRIBE_TOPICS = <<"a", "/", "b", ",", " ", "c", "/", "d">>,
                     !.MQTT_CLIENT_ID = <<"d", "a", "s", "h", "-", "1">>]
\* what start-server.sh exports
EnvStartServer ==
    [EnvUnset EXCEPT !.FRONTEND_URL = <<"h", "t", "t", "p", ":", "/", "/", "l", "o", "c", "a",
                                        "l", "h", "o", "s", "t", ":", "5", "1", "7", "4">>]
\* a deployment: FRONTEND_URL=https://app.example, RATE_LIMIT_WINDOW_MS=2,
\* RATE_LIMIT_MAX_REQUESTS=1
EnvDeployed ==
    [EnvUnset EXCEPT !.FRONTEND_URL = <<"h", "t", "t", "p", "s", ":", "/", "/", "a", "p", "p",
                                        ".", "e", "x", "a", "m", "p", "l", "e">>,
                     !.RATE_LIMIT_WINDOW_MS = <<"2">>,
                     !.RATE_LIMIT_MAX_REQUESTS = <<"1">>]
\* MQTT_CLIENT_ID=dash-1 alone
EnvNamed == [EnvUnset EXCEPT !.MQTT_CLIENT_ID = <<"d", "a", "s", "h", "-", "1">>]
EnvChoices == {EnvUnset, EnvTwoTopics, EnvStartServer, EnvDeployed, EnvNamed}

\* values Math.random().toString(16) may give in getConfigFromEnv
RandomDraws == << <<"0", ".", "1", "a", "2", "b", "3", "c", "4", "d", "5", "e", "6">>,
                 <<"0", ".", "8">> >>

\* downstream connections, in the order in which they may be accepted
Conns == {1, 2}

\* the `topics` query parameter of a downstream connection (<<>>: absent)
QueryNone == <<>>
QueryAB == <<"a", "/", "b">>
QueryBoth == <<" ", "a", "/", "b", " ", ",", ",", "c", "/", "d">>
Queries == {QueryNone, QueryAB, QueryBoth}

\* the number of broker messages handed to the upstream client in the runs
\* about message handling (SpecMsg)
MaxMsgs == 2
\* the same, in the runs of the whole server and of the client's methods
MaxEvents == 1
\* the number of subscribe calls deferred at one time
MaxDeferred == 2
\* client.subscribe calls, and client.unsubscribe calls, that subscribe()
\* and unsubscribe() find awaiting their callback
MaxPending == 2
\* clock steps taken in the runs of the HTTP routes
MaxTicks == 2
\* requests to /request-reset of one client that the limiter counts in one
\* window
MaxRequests == 4
\* calls of generateTopicId in one run
MaxCalls == 4
\* dashboards stored at one time
MaxDashboards == 1
\* ids POST /save generates in one run
MaxNewIds == 1

\* ws readyState values
OPEN == 1
CLOSING == OPEN + 1
CLOSED == OPEN + 2
\* a connection of Conns that has not been accepted yet
FRESH == OPEN - 1

\* this.client: null, or the state of the mqtt.js client it holds
NoClient == "null"

VARIABLES
    env,            \* process.env
    lastRandom,     \* what Math.random().toString(16) gave last in getConfigFromEnv
    client,         \* this.client (NoClient, or the mqtt.js client's state)
    isConnected,    \* this.isConnected
    latestByTopic,  \* this.latestByTopic: topic -> record
    subscriptions,  \* this.subscriptions, in insertion order
    deferred,       \* topics of the once('connect') listeners, in order
    subReqs,        \* bag of the topics of client.subscribe calls awaiting their callback
    unsubReqs,      \* bag of the topics of client.unsubscribe calls awaiting their callback
    brokerSubs,     \* the filters the broker holds for this client's session
    inflight,       \* messages the broker has routed to this client
    now,            \* the clock read by new Date(), as the number of readings
    wss,            \* WSService.wss is set
    listeners,      \* number of 'message' listeners on the upstream client
    clients,        \* wss.clients, in insertion order
    readyState,     \* readyState of each downstream connection
    wsSubs,         \* ws.subscriptions of each downstream connection
    received,       \* envelopes each downstream connection was sent
    hist,           \* history: the records of all messages handled, in order
    fanout,         \* history: the last fan-out (<<>> once a connection changed)
    wanted,         \* history: topics of subscribe calls deferred since the last connect
    lastConnect,    \* history: the last 'connect' event (<<>> before the first)
    wasShutdown,    \* history: shutdown() has been called
    offlineUnsubs,  \* history: deferred topics that unsubscribe was called on since the last connect
    awaiting,       \* history: <<connection, topic>> published and not yet delivered
    lastCtrl,       \* history: the malformed control message just handled (<<>> after any other event downstream)
    emptied         \* history: the open connections whose set an unsubscribe left empty

VARIABLES
    clock,          \* Date.now(), in milliseconds since the process started
    resetTokens,    \* storage.resetTokens: token -> [email, expiry, used]
    pendingMail,    \* request-reset handlers waiting for sendPasswordResetEmail
    mailbox,        \* the tokens of the reset links that were delivered by email
    authReply,      \* the response of the auth route handled last (<<>> before the first)
    hits,           \* the store of resetPasswordLimiter: req.ip -> [totalHits, resetTime]
    expiryOf,       \* history: token -> the expiry it was created with
    resetCount      \* history: token -> number of accepted reset-password requests

VARIABLES
    usedIds,        \* usedIds of topicIdGenerator.js, in insertion order
    returnedIds,    \* history: the identifiers generateTopicId returned, in order
    lastGen,        \* history: the last call of generateTopicId (<<>> before the first)
    lastValid       \* history: the last call of validateTopicId (<<>> before the first)

VARIABLES
    dashboards,     \* storage.dashboards: id -> dashboard object
    sharedDashboards, \* storage.sharedDashboards: shareableId -> snapshot object
    dashReply,      \* the response of the dashboard route handled last (<<>> before the first)
    publishedAs     \* history: shareableId -> the widgets the dashboard had when published

upVars == <<client, isConnected, subscriptions, deferred, subReqs, unsubReqs, brokerSubs, inflight>>
cacheVars == <<latestByTopic, now, hist>>
wsVars == <<wss, listeners, clients, readyState, wsSubs, emptied>>
outVars == <<received, fanout, lastCtrl>>
histVars == <<wanted, lastConnect, wasShutdown, offlineUnsubs>>
mqttVars == <<env, lastRandom, upVars, cacheVars, wsVars, outVars, histVars, awaiting>>
authVars == <<resetTokens, pendingMail, mailbox, authReply, hits, expiryOf, resetCount>>
idVars == <<usedIds, returnedIds, lastGen, lastValid>>
dashVars == <<dashboards, sharedDashboards, dashReply, publishedAs>>
appVars == <<clock, authVars, idVars, dashVars>>
vars == <<mqttVars, appVars>>

InitServices ==
    /\ env \in EnvChoices
    /\ lastRandom = RandomDraws[Len(RandomDraws)]
    /\ client = NoClient
    /\ isConnected = FALSE
    /\ latestByTopic = <<>>
    /\ subscriptions = <<>>
    /\ deferred = <<>>
    /\ subReqs = EmptyBag
    /\ unsubReqs = EmptyBag
    /\ brokerSubs = {}
    /\ inflight = <<>>
    /\ now = 0
    /\ wss = FALSE
    /\ listeners = 0
    /\ clients = <<>>
    /\ readyState = [c \in Conns |-> FRESH]
    /\ wsSubs = [c \in Conns |-> {}]
    /\ received = [c \in Conns |-> <<>>]
    /\ hist = <<>>
    /\ fanout = <<>>
    /\ wanted = {}
    /\ lastConnect = <<>>
    /\ wasShutdown = FALSE
    /\ offlineUnsubs = {}
    /\ awaiting = {}
    /\ lastCtrl = <<>>
    /\ emptied = {}
    /\ resetTokens = <<>>
    /\ pendingMail = {}
    /\ mailbox = {}
    /\ authReply = <<>>
    /\ hits = <<>>
    /\ expiryOf = <<>>
    /\ resetCount = <<>>
    /\ returnedIds = <<>>
    /\ lastGen = <<>>
    /\ lastValid = <<>>
    /\ dashboards = <<>>
    /\ sharedDashboards = <<>>
    /\ dashReply = <<>>
    /\ publishedAs = <<>>

\* the process has just started: no identifier was issued
Init ==
    /\ InitServices
    /\ clock = 0
    /\ usedIds = <<>>

(***************************************************************************)
(* BackendMQTTService: the upstream client.                                *)
(***************************************************************************)
\* cfg.subscribeTopics of getConfigFromEnv
subscribeTopics(e) ==
    TopicList(IF e.MQTT_SUBSCRIBE_TOPICS = <<>> THEN Wildcard ELSE e.MQTT_SUBSCRIBE_TOPICS)

\* the broker's topic matching, for the filters of the model
FilterMatches(f, t) == f = Wildcard \/ f = t
Routed(t) == client = "connected" /\ \E f \in brokerSubs : FilterMatches(f, t)

\* this.client after connect(): a client is created only when there is none
\* Faulty variant: the guard on this.client is missing
connectAlways(cl) == "connecting"

connect(cl) == IF cl # NoClient THEN cl ELSE "connecting"

\* getConfigFromEnv, called when connect() creates the client: Math.random()
\* is evaluated when MQTT_CLIENT_ID is not set, and gives any of the draws
Drawn(cl) ==
    IF cl = NoClient /\ env.MQTT_CLIENT_ID = <<>> THEN Range(RandomDraws) ELSE {lastRandom}

\* Faulty variant: the catch block leaves data at its initial null
ParsePayloadKeepsNull(messageString) ==
    LET r == JsonParse(messageString)
    IN  IF r.ok THEN r.val ELSE JNull

\* the data field of a record: the parsed payload, or the text itself
ParsePayload(messageString) ==
    LET r == JsonParse(messageString)
    IN  IF r.ok THEN r.val ELSE JStr(messageString)

MessageRecord(topic, messageString, at) ==
    [topic |-> topic, data |-> ParsePayload(messageString),
     raw |-> messageString, receivedAt |-> at]

\* map.set(k, v)
MapSet(map, k, v) ==
    [t \in DOMAIN map \cup {k} |-> IF t = k THEN v ELSE map[t]]

\* Faulty variant: a topic that has a record keeps it
StoreLatestKeepsFirst(cache, record) ==
    IF record.topic \in DOMAIN cache THEN cache ELSE MapSet(cache, record.topic, record)

\* this.latestByTopic after the 'message' handler has stored the record
StoreLatest(cache, record) == MapSet(cache, record.topic, record)

\* getLatest(topic): <<record>>, or <<>> for null
getLatest(topic) ==
    IF topic \in DOMAIN latestByTopic THEN <<latestByTopic[topic]>> ELSE <<>>

\* the payload publish() hands to client.publish
PublishPayload(message) ==
    IF TypeofObject(message) THEN JsonStringify(message) ELSE ToStr(message)

\* Faulty variant: the deferred subscribes are not replayed
SubscribesOnConnectConfigOnly(cfgTopics, deferredTopics) == cfgTopics

\* Faulty variant: the configured topics are subscribed on the first connect only
SubscribesOnConnectFirstOnly(cfgTopics, deferredTopics) ==
    IF lastConnect = <<>> THEN cfgTopics \o deferredTopics ELSE deferredTopics

\* the topics of the client.subscribe calls made while 'connect' is emitted:
\* the handler of connect() first, then the once-listeners in order
SubscribesOnConnect(cfgTopics, deferredTopics) == cfgTopics \o deferredTopics

\* pairs of awaiting that a publish on topic t adds
NewlyAwaiting(t) ==
    {<<c, t>> : c \in {d \in Conns : readyState[d] = OPEN /\ JStr(t) \in wsSubs[d]}}

\* a message on topic t reaches the broker
BrokerRoute(t, payload) ==
    /\ awaiting' = awaiting \cup NewlyAwaiting(t)
    /\ IF Routed(t)
       THEN inflight' = Append(inflight, [topic |-> t, payload |-> payload])
       ELSE UNCHANGED inflight

\* fewer than limit messages have been routed to the upstream client
MsgBudget(limit) == Len(hist) + Len(inflight) < limit

\* Set.prototype.has, add and delete, on a Set kept in insertion order
SetHas(ids, id) == \E i \in 1..Len(ids) : ids[i] = id
SetAdd(ids, id) == IF SetHas(ids, id) THEN ids ELSE Append(ids, id)
SetDelete(ids, id) == SelectSeq(ids, LAMBDA x : x # id)

\* one entry for each element of seq: a client.subscribe call for each
BagOfSeq(seq) == [t \in Range(seq) |-> Cardinality({i \in DOMAIN seq : seq[i] = t})]

\* router.use of routes/mqtt.js, followed by a GET handler that only reads
routerUse ==
    /\ client' = connect(client)
    /\ lastRandom' \in Drawn(client)
    /\ UNCHANGED <<appVars, env, isConnected, subscriptions, deferred, subReqs, unsubReqs,
                   brokerSubs, inflight, cacheVars, wsVars, outVars, histVars, awaiting>>

subscribe(topic) ==
    /\ client' = connect(client)
    /\ lastRandom' \in Drawn(client)
    /\ IF ~isConnected
       THEN /\ Len(deferred) < MaxDeferred
            /\ deferred' = Append(deferred, topic)
            /\ wanted' = wanted \cup {topic}
            /\ UNCHANGED subReqs
       ELSE /\ BagCardinality(subReqs) < MaxPending
            /\ subReqs' = subReqs (+) SetToBag({topic})
            /\ UNCHANGED <<deferred, wanted>>
    /\ UNCHANGED <<appVars, env, isConnected, subscriptions, unsubReqs, brokerSubs, inflight,
                   cacheVars, wsVars, outVars, lastConnect, wasShutdown, offlineUnsubs,
                   awaiting>>

\* the callback of client.subscribe
SubAck(topic, granted) ==
    /\ client = "connected"
    /\ BagIn(topic, subReqs)
    /\ subReqs' = subReqs (-) SetToBag({topic})
    /\ IF granted
       THEN /\ subscriptions' = SetAdd(subscriptions, topic)
            /\ brokerSubs' = brokerSubs \cup {topic}
       ELSE UNCHANGED <<subscriptions, brokerSubs>>
    /\ UNCHANGED <<appVars, env, lastRandom, client, isConnected, deferred, unsubReqs, inflight,
                   cacheVars, wsVars, outVars, histVars, awaiting>>

\* Faulty variant: an unsubscribe while not connected withdraws the deferred subscribe
unsubscribeCancelsDeferred(topic) ==
    /\ IF client = NoClient \/ ~isConnected
       THEN /\ offlineUnsubs' = offlineUnsubs \cup ({topic} \cap Range(deferred))
            /\ deferred' = SelectSeq(deferred, LAMBDA t : t # topic)
            /\ UNCHANGED unsubReqs
       ELSE /\ BagCardinality(unsubReqs) < MaxPending
            /\ unsubReqs' = unsubReqs (+) SetToBag({topic})
            /\ UNCHANGED <<offlineUnsubs, deferred>>
    /\ UNCHANGED <<appVars, env, lastRandom, client, isConnected, subscriptions, subReqs,
                   brokerSubs, inflight, cacheVars, wsVars, outVars, wanted, lastConnect,
                   wasShutdown, awaiting>>

unsubscribe(topic) ==
    /\ IF client = NoClient \/ ~isConnected
       THEN /\ offlineUnsubs' = offlineUnsubs \cup ({topic} \cap Range(deferred))
            /\ UNCHANGED unsubReqs
       ELSE /\ BagCardinality(unsubReqs) < MaxPending
            /\ unsubReqs' = unsubReqs (+) SetToBag({topic})
            /\ UNCHANGED offlineUnsubs
    /\ UNCHANGED <<appVars, env, lastRandom, client, isConnected, subscriptions, deferred, subReqs,
                   brokerSubs, inflight, cacheVars, wsVars, outVars, wanted, lastConnect,
                   wasShutdown, awaiting>>

\* the callback of client.unsubscribe
UnsubAck(topic, done) ==
    /\ client = "connected"
    /\ BagIn(topic, unsubReqs)
    /\ unsubReqs' = unsubReqs (-) SetToBag({topic})
    /\ IF done
       THEN /\ subscriptions' = SetDelete(subscriptions, topic)
            /\ brokerSubs' = brokerSubs \ {topic}
       ELSE UNCHANGED <<subscriptions, brokerSubs>>
    /\ UNCHANGED <<appVars, env, lastRandom, client, isConnected, deferred, subReqs, inflight,
                   cacheVars, wsVars, outVars, histVars, awaiting>>

\* publish(topic, message); a message published while offline is flushed on
\* the next connect, before any subscription exists, and is not routed back
publish(topic, message) ==
    /\ client' = connect(client)
    /\ lastRandom' \in Drawn(client)
    /\ IF client = "connected"
       THEN BrokerRoute(topic, PublishPayload(message))
       ELSE UNCHANGED <<inflight, awaiting>>
    /\ UNCHANGED <<appVars, env, isConnected, subscriptions, deferred, subReqs, unsubReqs,
                   brokerSubs, cacheVars, wsVars, outVars, histVars>>

\* another client of the broker (a device) publishes
DevicePublish(topic, payload) ==
    /\ BrokerRoute(topic, payload)
    /\ UNCHANGED <<appVars, env, lastRandom, client, isConnected, subscriptions, deferred, subReqs,
                   unsubReqs, brokerSubs, cacheVars, wsVars, outVars, histVars>>

shutdown ==
    /\ client' = NoClient
    /\ isConnected' = FALSE
    /\ deferred' = <<>>
    /\ subReqs' = EmptyBag
    /\ unsubReqs' = EmptyBag
    /\ brokerSubs' = {}
    /\ inflight' = <<>>
    /\ wanted' = {}
    /\ offlineUnsubs' = {}
    /\ wasShutdown' = TRUE
    /\ awaiting' = {}
    /\ UNCHANGED <<appVars, env, lastRandom, subscriptions, cacheVars, wsVars, outVars, lastConnect>>

\* client 'connect' event
OnConnect ==
    /\ client \in {"connecting", "reconnecting"}
    /\ client' = "connected"
    /\ isConnected' = TRUE
    /\ LET issued == SubscribesOnConnect(subscribeTopics(env), deferred)
       IN  /\ subReqs' = subReqs (+) BagOfSeq(issued)
           /\ lastConnect' = <<[wanted |-> wanted, issued |-> issued,
                                unsubscribed |-> offlineUnsubs # {}]>>
    /\ deferred' = <<>>
    /\ wanted' = {}
    /\ offlineUnsubs' = {}
    /\ UNCHANGED <<appVars, env, lastRandom, subscriptions, unsubReqs, brokerSubs, inflight,
                   cacheVars, wsVars, outVars, wasShutdown, awaiting>>

\* Faulty variant: an attempt that fails before the first connect is not retried
OnReconnectAfterFirstConnectOnly ==
    /\ client = "closed"
    /\ lastConnect # <<>>
    /\ client' = "reconnecting"
    /\ UNCHANGED <<appVars, env, lastRandom, isConnected, subscriptions, deferred, subReqs, unsubReqs,
                   brokerSubs, inflight, cacheVars, wsVars, outVars, histVars, awaiting>>

\* client 'reconnect' event: the reconnect timer fired
OnReconnect ==
    /\ client = "closed"
    /\ client' = "reconnecting"
    /\ UNCHANGED <<appVars, env, lastRandom, isConnected, subscriptions, deferred, subReqs, unsubReqs,
                   brokerSubs, inflight, cacheVars, wsVars, outVars, histVars, awaiting>>

\* Faulty variant: the cache is dropped with the connection
OnCloseDropsCache ==
    /\ client \in {"connecting", "connected", "reconnecting"}
    /\ client' = "closed"
    /\ isConnected' = FALSE
    /\ subReqs' = EmptyBag
    /\ unsubReqs' = EmptyBag
    /\ brokerSubs' = {}
    /\ inflight' = <<>>
    /\ awaiting' = {}
    /\ latestByTopic' = <<>>
    /\ UNCHANGED <<appVars, env, lastRandom, subscriptions, deferred, now, hist, wsVars, outVars, histVars>>

\* Faulty variant: the loss is announced to every open downstream connection
OnCloseTellsDownstream ==
    /\ client \in {"connecting", "connected", "reconnecting"}
    /\ client' = "closed"
    /\ isConnected' = FALSE
    /\ subReqs' = EmptyBag
    /\ unsubReqs' = EmptyBag
    /\ brokerSubs' = {}
    /\ inflight' = <<>>
    /\ awaiting' = {}
    /\ received' = [c \in Conns |->
          IF readyState[c] = OPEN
          THEN Append(received[c], [type |-> "error", topic |-> <<>>, data |-> JNull,
                                    raw |-> <<>>, receivedAt |-> now])
          ELSE received[c]]
    /\ UNCHANGED <<appVars, env, lastRandom, subscriptions, deferred, cacheVars, wsVars, fanout, lastCtrl,
                   histVars>>

\* client 'close' event: the connection was lost or an attempt failed
OnClose ==
    /\ client \in {"connecting", "connected", "reconnecting"}
    /\ client' = "closed"
    /\ isConnected' = FALSE
    /\ subReqs' = EmptyBag
    /\ unsubReqs' = EmptyBag
    /\ brokerSubs' = {}
    /\ inflight' = <<>>
    /\ awaiting' = {}
    /\ UNCHANGED <<appVars, env, lastRandom, subscriptions, deferred, cacheVars, wsVars, outVars, histVars>>

\* client 'error' event: logged only
OnError ==
    /\ client # NoClient
    /\ UNCHANGED vars

(***************************************************************************)
(* WSService: the fan-out server.                                          *)
(***************************************************************************)
\* control messages a downstream connection sends
CtrlSubAB == <<"{", "\"", "a", "c", "t", "i", "o", "n", "\"", ":", "\"", "s", "u", "b",
               "s", "c", "r", "i", "b", "e", "\"", ",", "\"", "t", "o", "p", "i", "c",
               "\"", ":", "\"", "a", "/", "b", "\"", "}">>
CtrlSubCD == <<"{", "\"", "a", "c", "t", "i", "o", "n", "\"", ":", "\"", "s", "u", "b",
               "s", "c", "r", "i", "b", "e", "\"", ",", "\"", "t", "o", "p", "i", "c",
               "\"", ":", "\"", "c", "/", "d", "\"", "}">>
CtrlUnsubAB == <<"{", "\"", "a", "c", "t", "i", "o", "n", "\"", ":", "\"", "u", "n", "s",
                 "u", "b", "s", "c", "r", "i", "b", "e", "\"", ",", "\"", "t", "o", "p",
                 "i", "c", "\"", ":", "\"", "a", "/", "b", "\"", "}">>
CtrlUnsubCD == <<"{", "\"", "a", "c", "t", "i", "o", "n", "\"", ":", "\"", "u", "n", "s",
                 "u", "b", "s", "c", "r", "i", "b", "e", "\"", ",", "\"", "t", "o", "p",
                 "i", "c", "\"", ":", "\"", "c", "/", "d", "\"", "}">>
\* malformed: not JSON, not an object, unknown action, no topic
CtrlNotJson == <<"s", "u", "b", " ", "a", "/", "b">>
CtrlNull == <<"n", "u", "l", "l">>
CtrlNum == <<"4", "2">>
CtrlPing == <<"{", "\"", "a", "c", "t", "i", "o", "n", "\"", ":", "\"", "p", "i", "n",
              "g", "\"", ",", "\"", "t", "o", "p", "i", "c", "\"", ":", "\"", "a", "/",
              "b", "\"", "}">>
CtrlNoTopic == <<"{", "\"", "a", "c", "t", "i", "o", "n", "\"", ":", "\"", "s", "u", "b",
                 "s", "c", "r", "i", "b", "e", "\"", "}">>
WellFormedCtrl == {CtrlSubAB, CtrlSubCD, CtrlUnsubAB, CtrlUnsubCD}
MalformedCtrl == {CtrlNotJson, CtrlNull, CtrlNum, CtrlPing, CtrlNoTopic}
CtrlMsgs == WellFormedCtrl \cup MalformedCtrl

KeyAction == <<"a", "c", "t", "i", "o", "n">>
KeyTopic == <<"t", "o", "p", "i", "c">>
StrSubscribe == JStr(<<"s", "u", "b", "s", "c", "r", "i", "b", "e">>)
StrUnsubscribe == JStr(<<"u", "n", "s", "u", "b", "s", "c", "r", "i", "b", "e">>)

\* ws.subscriptions of a new connection, from the `topics` query parameter
\* Faulty variant: the entries are not trimmed
InitialSubscriptionsUntrimmed(topicsParam) ==
    {JStr(t) : t \in Range(SelectSeq(Split(topicsParam, ","), NonEmpty))}

InitialSubscriptions(topicsParam) == {JStr(t) : t \in Range(TopicList(topicsParam))}

\* Faulty variant: any action other than unsubscribe counts as subscribe
AfterControlAnyAction(subs, msg) ==
    LET r == JsonParse(msg)
    IN  IF ~r.ok \/ r.val.kind = "null" THEN subs
        ELSE LET action == GetProp(r.val, KeyAction)
                 topic == GetProp(r.val, KeyTopic)
             IN  IF ~Truthy(topic) THEN subs
                 ELSE IF action = StrUnsubscribe THEN subs \ {topic}
                 ELSE subs \cup {topic}

\* a Set holds an object or an array by reference: every parse makes a new
\* one, which no later has() or delete() finds; num numbers the references
\* the set holds
IsReference(v) == v.kind \in {"object", "array"}
SetEntry(subs, v) ==
    IF IsReference(v)
    THEN [v EXCEPT !.num = Cardinality({e \in subs : IsReference(e)}) + 1]
    ELSE v

\* ws.subscriptions after the 'message' handler of a connection has run on msg
AfterControl(subs, msg) ==
    LET r == JsonParse(msg)
    IN  IF ~r.ok \/ r.val.kind = "null" THEN subs
        ELSE LET action == GetProp(r.val, KeyAction)
                 topic == GetProp(r.val, KeyTopic)
                 added == IF action = StrSubscribe /\ Truthy(topic)
                          THEN subs \cup {SetEntry(subs, topic)} ELSE subs
             IN  IF action = StrUnsubscribe /\ Truthy(topic) /\ ~IsReference(topic)
                 THEN added \ {topic} ELSE added

\* Faulty variant: the subscription set is not consulted
MatchesEveryOpen(c, topic) == readyState[c] = OPEN

\* Faulty variant: an empty subscription set receives nothing
MatchesSubscribedOnly(c, topic) ==
    /\ readyState[c] = OPEN
    /\ JStr(topic) \in wsSubs[c]

\* Faulty variant: readyState is not tested
MatchesAnyReadyState(c, topic) ==
    IF Cardinality(wsSubs[c]) # 0 THEN JStr(topic) \in wsSubs[c] ELSE TRUE

\* Faulty variant: only a set that has never held a topic receives every event
MatchesNeverSubscribed(c, topic) ==
    /\ readyState[c] = OPEN
    /\ IF Cardinality(wsSubs[c]) # 0 THEN JStr(topic) \in wsSubs[c] ELSE c \notin emptied

\* the test the fan-out makes before client.send
Matches(c, topic) ==
    /\ readyState[c] = OPEN
    /\ IF Cardinality(wsSubs[c]) # 0 THEN JStr(topic) \in wsSubs[c] ELSE TRUE

\* Faulty variant: one try/catch around the whole loop: the first exception ends it
RECURSIVE UpToFirstThrow(_, _)
UpToFirstThrow(targets, throwing) ==
    IF targets = <<>> THEN <<>>
    ELSE IF Head(targets) \in throwing THEN <<Head(targets)>>
    ELSE <<Head(targets)>> \o UpToFirstThrow(Tail(targets), throwing)

SendTargetsAbortOnThrow(cs, throwing, topic) ==
    UpToFirstThrow(SelectSeq(cs, LAMBDA c : Matches(c, topic)), throwing)

\* the connections client.send is called on, in order; an exception of send
\* is caught inside the loop body, so the loop goes on (throwing plays no part)
SendTargets(cs, throwing, topic) ==
    SelectSeq(cs, LAMBDA c : Matches(c, topic))

\* the envelope JSON.stringify({ type: 'mqtt', ...record }) carries
Envelope(record) ==
    [type |-> "mqtt", topic |-> record.topic, data |-> record.data,
     raw |-> record.raw, receivedAt |-> record.receivedAt]

\* the calls of send made by n listeners, one after the other
RECURSIVE Repeat(_, _)
Repeat(seq, n) == IF n = 0 THEN <<>> ELSE seq \o Repeat(seq, n - 1)

\* the envelopes connection c was sent without an exception
Deliveries(sent, throwing, c, envelope) ==
    IF c \in throwing THEN <<>>
    ELSE [i \in 1..Len(SelectSeq(sent, LAMBDA d : d = c)) |-> envelope]

\* WSService.init(server)
\* Faulty variant: every call builds a server and registers a listener
initRegistersAgain ==
    /\ wss' = TRUE
    /\ listeners' = listeners + 1
    /\ UNCHANGED <<appVars, env, lastRandom, upVars, cacheVars, clients, readyState, wsSubs, emptied,
                   outVars, histVars, awaiting>>

init ==
    /\ IF wss
       THEN UNCHANGED <<wss, listeners>>
       ELSE /\ wss' = TRUE
            /\ listeners' = listeners + 1
    /\ UNCHANGED <<appVars, env, lastRandom, upVars, cacheVars, clients, readyState, wsSubs, emptied,
                   outVars, histVars, awaiting>>

\* wss 'connection' event
OnWsConnection(c, topicsParam) ==
    /\ wss
    /\ readyState[c] = FRESH
    /\ readyState' = [readyState EXCEPT ![c] = OPEN]
    /\ clients' = Append(clients, c)
    /\ wsSubs' = [wsSubs EXCEPT ![c] = InitialSubscriptions(topicsParam)]
    /\ emptied' = emptied \ {c}
    /\ fanout' = <<>>
    /\ lastCtrl' = <<>>
    /\ UNCHANGED <<appVars, env, lastRandom, upVars, cacheVars, wss, listeners, received, histVars, awaiting>>

\* ws 'message' event: a control message
\* Faulty variant: one subscription set is kept for all connections
OnWsMessageSharedSet(c, msg) ==
    /\ readyState[c] = OPEN
    /\ wsSubs' = [d \in Conns |-> AfterControl(wsSubs[d], msg)]
    /\ awaiting' = {p \in awaiting : p[1] # c \/ JStr(p[2]) \in wsSubs'[c]}
    /\ emptied' = IF wsSubs'[c] # {} THEN emptied \ {c}
                  ELSE IF wsSubs[c] # {} THEN emptied \cup {c}
                  ELSE emptied
    /\ fanout' = <<>>
    /\ lastCtrl' = IF msg \in MalformedCtrl
                   THEN <<[conn |-> c, msg |-> msg, before |-> wsSubs[c],
                           sentBefore |-> received]>>
                   ELSE <<>>
    /\ UNCHANGED <<appVars, env, lastRandom, upVars, cacheVars, wss, listeners, clients, readyState,
                   received, histVars>>

OnWsMessage(c, msg) ==
    /\ readyState[c] = OPEN
    /\ wsSubs' = [wsSubs EXCEPT ![c] = AfterControl(wsSubs[c], msg)]
    /\ awaiting' = {p \in awaiting : p[1] # c \/ JStr(p[2]) \in wsSubs'[c]}
    /\ emptied' = IF wsSubs'[c] # {} THEN emptied \ {c}
                  ELSE IF wsSubs[c] # {} THEN emptied \cup {c}
                  ELSE emptied
    /\ fanout' = <<>>
    /\ lastCtrl' = IF msg \in MalformedCtrl
                   THEN <<[conn |-> c, msg |-> msg, before |-> wsSubs[c],
                           sentBefore |-> received]>>
                   ELSE <<>>
    /\ UNCHANGED <<appVars, env, lastRandom, upVars, cacheVars, wss, listeners, clients, readyState,
                   received, histVars>>

\* a downstream connection starts its closing handshake
WsClosing(c) ==
    /\ readyState[c] = OPEN
    /\ readyState' = [readyState EXCEPT ![c] = CLOSING]
    /\ awaiting' = {p \in awaiting : p[1] # c}
    /\ emptied' = emptied \ {c}
    /\ fanout' = <<>>
    /\ lastCtrl' = <<>>
    /\ UNCHANGED <<appVars, env, lastRandom, upVars, cacheVars, wss, listeners, clients, wsSubs,
                   received, histVars>>

\* ws 'close' event: the connection leaves wss.clients
OnWsClose(c) ==
    /\ readyState[c] \in {OPEN, CLOSING}
    /\ readyState' = [readyState EXCEPT ![c] = CLOSED]
    /\ clients' = SelectSeq(clients, LAMBDA d : d # c)
    /\ awaiting' = {p \in awaiting : p[1] # c}
    /\ emptied' = emptied \ {c}
    /\ fanout' = <<>>
    /\ lastCtrl' = <<>>
    /\ UNCHANGED <<appVars, env, lastRandom, upVars, cacheVars, wss, listeners, wsSubs, received, histVars>>

\* client 'message' event: the record is cached and emitted, and every
\* listener (the bridge of WSService.init) fans it out
OnMessage ==
    /\ client = "connected"
    /\ inflight # <<>>
    /\ \E throwing \in SUBSET {c \in Conns : Matches(c, Head(inflight).topic)} :
          LET m == Head(inflight)
              record == MessageRecord(m.topic, m.payload, now + 1)
              sent == Repeat(SendTargets(clients, throwing, m.topic), listeners)
          IN  /\ now' = now + 1
              /\ latestByTopic' = StoreLatest(latestByTopic, record)
              /\ hist' = Append(hist, record)
              /\ received' = [c \in Conns |->
                    received[c] \o Deliveries(sent, throwing, c, Envelope(record))]
              /\ fanout' = <<[topic |-> m.topic, sent |-> sent,
                              threw |-> throwing \cap Range(sent)]>>
              /\ lastCtrl' = <<>>
              /\ awaiting' = {p \in awaiting :
                    p[2] # m.topic \/ Len(Deliveries(sent, throwing, p[1], 0)) = 0}
                    \ {p \in awaiting : p[1] \in throwing}
    /\ inflight' = Tail(inflight)
    /\ UNCHANGED <<appVars, env, lastRandom, client, isConnected, subscriptions, deferred, subReqs,
                   unsubReqs, brokerSubs, wsVars, histVars>>

(***************************************************************************)
(* routes/auth.js: password reset tokens in storage.resetTokens.           *)
(***************************************************************************)
\* what crypto.randomBytes(32).toString('hex') returns in the runs, and a
\* token string that is never issued
Tokens == {"tokA"}
GuessedToken == "tokX"
\* the client served in the runs of all the auth routes
AuthIps == {"c1"}

EmailUser == <<"u", "@", "x", ".", "i", "o">>
EmailUserCaps == <<"U", "@", "X", ".", "i", "o">>
EmailOther == <<"v", "@", "x", ".", "i", "o">>
EmailBad == <<"n", "o", "p", "e">>
Emails == {EmailUser, EmailUserCaps, EmailOther, EmailBad}

PasswordOk == <<"s", "e", "c", "r", "e", "t">>
PasswordShort == <<"s", "h", "o", "r", "t">>
Passwords == {PasswordOk, PasswordShort}

\* 24 * 60 * 60 * 1000
ResetLifetime == 24 * 60 * 60 * 1000
\* Joi.string().min(6)
MinPasswordLen == 6

\* the addresses the requests to /request-reset come from (req.ip)
Ips == {"c1", "c2"}

ErrTokenRequired == "Reset token is required"
ErrEmailRequired == "Email is required"
ErrPasswordRequired == "New password is required"
ErrTokenEmpty == "\"token\" is not allowed to be empty"
ErrEmailEmpty == "\"email\" is not allowed to be empty"
ErrPasswordEmpty == "\"newPassword\" is not allowed to be empty"
ErrRequired == "Token and email are required"
ErrTooMany == "Too many password reset requests. Please try again later."
ErrEmail == "Please provide a valid email address"
ErrPassword == "Password must be at least 6 characters long"
ErrInvalidOrExpired == "Invalid or expired reset token"
ErrExpiredReset == "Reset token has expired. Please request a new one."
ErrUsedReset == "Reset token has already been used. Please request a new one."
ErrEmailMismatch == "Invalid email for this reset token"
ErrInvalidToken == "Invalid reset token"
ErrExpired == "Reset token has expired"
ErrUsed == "Reset token has already been used"
ErrSendFailed == "Failed to send password reset email. Please try again later."
NoError == ""

\* String.prototype.toLowerCase, for ASCII letters
UpperCase == <<"A", "B", "C", "D", "E", "F", "G", "H", "I", "J", "K", "L", "M",
               "N", "O", "P", "Q", "R", "S", "T", "U", "V", "W", "X", "Y", "Z">>
LowerCase == <<"a", "b", "c", "d", "e", "f", "g", "h", "i", "j", "k", "l", "m",
               "n", "o", "p", "q", "r", "s", "t", "u", "v", "w", "x", "y", "z">>
LowerChar(c) ==
    IF \E i \in 1..Len(UpperCase) : UpperCase[i] = c
    THEN LowerCase[CHOOSE i \in 1..Len(UpperCase) : UpperCase[i] = c]
    ELSE c
toLowerCase(s) == [i \in 1..Len(s) |-> LowerChar(s[i])]

\* Joi.string().email(): one "@" with text before it and a dotted domain after
IsEmail(s) ==
    /\ Len(SelectSeq(s, LAMBDA c : c = "@")) = 1
    /\ LET at == CHOOSE i \in 1..Len(s) : s[i] = "@"
           domain == SubSeq(s, at + 1, Len(s))
       IN  /\ at > 1
           /\ \E d \in 2..(Len(domain) - 1) : domain[d] = "."
           /\ \A d \in 1..Len(domain) : domain[d] = "." =>
                 d > 1 /\ d < Len(domain) /\ domain[d - 1] # "."

\* req.body and req.query are records of the keys the request carries
Has(body, key) == key \in DOMAIN body

\* requestResetSchema.validate(req.body): the message of the first error.
\* Joi.string() refuses the empty string before it applies its rules.
requestResetSchema(body) ==
    IF ~Has(body, "email") THEN ErrEmailRequired
    ELSE IF body.email = <<>> THEN ErrEmailEmpty
    ELSE IF ~IsEmail(body.email) THEN ErrEmail
    ELSE NoError

\* resetPasswordSchema.validate(req.body): the message of the first error,
\* the keys taken in the order of the schema
resetPasswordSchema(body) ==
    IF ~Has(body, "token") THEN ErrTokenRequired
    ELSE IF body.token = "" THEN ErrTokenEmpty
    ELSE IF ~Has(body, "email") THEN ErrEmailRequired
    ELSE IF body.email = <<>> THEN ErrEmailEmpty
    ELSE IF ~IsEmail(body.email) THEN ErrEmail
    ELSE IF ~Has(body, "newPassword") THEN ErrPasswordRequired
    ELSE IF body.newPassword = <<>> THEN ErrPasswordEmpty
    ELSE IF Len(body.newPassword) < MinPasswordLen THEN ErrPassword
    ELSE NoError

MapDelete(map, k) == [t \in DOMAIN map \ {k} |-> map[t]]

Reply(status, error, tokens) == [status |-> status, error |-> error, tokens |-> tokens]

\* Faulty variant: an accepted reset records the time of use, not the flag
ResetOutcomeMarksUsedAtOnly(tokens, body, at) ==
    LET invalid == resetPasswordSchema(body)
    IN  IF invalid # NoError THEN Reply(400, invalid, tokens)
        ELSE IF body.token \notin DOMAIN tokens THEN Reply(400, ErrInvalidOrExpired, tokens)
        ELSE IF at > tokens[body.token].expiry
             THEN Reply(400, ErrExpiredReset, MapDelete(tokens, body.token))
        ELSE IF tokens[body.token].used THEN Reply(400, ErrUsedReset, tokens)
        ELSE IF tokens[body.token].email # toLowerCase(body.email)
             THEN Reply(400, ErrEmailMismatch, tokens)
        ELSE Reply(200, NoError,
                   MapSet(tokens, body.token,
                          [tokens[body.token] EXCEPT !.usedAt = <<at>>]))

\* Faulty variant: an accepted reset does not mark the token
ResetOutcomeNeverMarks(tokens, body, at) ==
    LET invalid == resetPasswordSchema(body)
    IN  IF invalid # NoError THEN Reply(400, invalid, tokens)
        ELSE IF body.token \notin DOMAIN tokens THEN Reply(400, ErrInvalidOrExpired, tokens)
        ELSE IF at > tokens[body.token].expiry
             THEN Reply(400, ErrExpiredReset, MapDelete(tokens, body.token))
        ELSE IF tokens[body.token].email # toLowerCase(body.email)
             THEN Reply(400, ErrEmailMismatch, tokens)
        ELSE Reply(200, NoError, tokens)

\* Faulty variant: the used flag is tested before the expiry
ResetOutcomeUsedFirst(tokens, body, at) ==
    LET invalid == resetPasswordSchema(body)
    IN  IF invalid # NoError THEN Reply(400, invalid, tokens)
        ELSE IF body.token \notin DOMAIN tokens THEN Reply(400, ErrInvalidOrExpired, tokens)
        ELSE IF tokens[body.token].used THEN Reply(400, ErrUsedReset, tokens)
        ELSE IF at > tokens[body.token].expiry
             THEN Reply(400, ErrExpiredReset, MapDelete(tokens, body.token))
        ELSE IF tokens[body.token].email # toLowerCase(body.email)
             THEN Reply(400, ErrEmailMismatch, tokens)
        ELSE Reply(200, NoError,
                   MapSet(tokens, body.token,
                          [tokens[body.token] EXCEPT !.used = TRUE, !.usedAt = <<at>>]))

\* POST /reset-password: the response and storage.resetTokens after it
ResetOutcome(tokens, body, at) ==
    LET invalid == resetPasswordSchema(body)
    IN  IF invalid # NoError THEN Reply(400, invalid, tokens)
        ELSE IF body.token \notin DOMAIN tokens THEN Reply(400, ErrInvalidOrExpired, tokens)
        ELSE IF at > tokens[body.token].expiry
             THEN Reply(400, ErrExpiredReset, MapDelete(tokens, body.token))
        ELSE IF tokens[body.token].used THEN Reply(400, ErrUsedReset, tokens)
        ELSE IF tokens[body.token].email # toLowerCase(body.email)
             THEN Reply(400, ErrEmailMismatch, tokens)
        ELSE Reply(200, NoError,
                   MapSet(tokens, body.token,
                          [tokens[body.token] EXCEPT !.used = TRUE, !.usedAt = <<at>>]))

\* `!token || !email` of GET /validate-reset-token
Missing(query) ==
    \/ ~Has(query, "token") \/ query.token = ""
    \/ ~Has(query, "email") \/ query.email = <<>>

\* Faulty variant: a successful validation consumes the token
ValidateOutcomeConsumes(tokens, query, at) ==
    IF Missing(query) THEN Reply(400, ErrRequired, tokens)
    ELSE IF query.token \notin DOMAIN tokens THEN Reply(400, ErrInvalidToken, tokens)
    ELSE IF at > tokens[query.token].expiry
         THEN Reply(400, ErrExpired, MapDelete(tokens, query.token))
    ELSE IF tokens[query.token].used THEN Reply(400, ErrUsed, tokens)
    ELSE IF tokens[query.token].email # toLowerCase(query.email)
         THEN Reply(400, ErrEmailMismatch, tokens)
    ELSE Reply(200, NoError,
               MapSet(tokens, query.token, [tokens[query.token] EXCEPT !.used = TRUE]))

\* GET /validate-reset-token: the response and storage.resetTokens after it
ValidateOutcome(tokens, query, at) ==
    IF Missing(query) THEN Reply(400, ErrRequired, tokens)
    ELSE IF query.token \notin DOMAIN tokens THEN Reply(400, ErrInvalidToken, tokens)
    ELSE IF at > tokens[query.token].expiry
         THEN Reply(400, ErrExpired, MapDelete(tokens, query.token))
    ELSE IF tokens[query.token].used THEN Reply(400, ErrUsed, tokens)
    ELSE IF tokens[query.token].email # toLowerCase(query.email)
         THEN Reply(400, ErrEmailMismatch, tokens)
    ELSE Reply(200, NoError, tokens)

\* the digit a character stands for in parseInt (16: none)
RadixVal(c) ==
    LET digits == <<"0", "1", "2", "3", "4", "5", "6", "7", "8", "9",
                    "a", "b", "c", "d", "e", "f">>
        letter == LowerChar(c)
    IN  IF \E i \in 1..16 : digits[i] = letter
        THEN (CHOOSE i \in 1..16 : digits[i] = letter) - 1
        ELSE 16

\* the number the digits of s from position i on stand for (<<>>: no digit)
RECURSIVE ParseDigits(_, _, _, _)
ParseDigits(s, i, radix, acc) ==
    IF i > Len(s) \/ RadixVal(s[i]) >= radix THEN acc
    ELSE ParseDigits(s, i + 1, radix,
                     <<(IF acc = <<>> THEN 0 ELSE acc[1] * radix) + RadixVal(s[i])>>)

\* parseInt(text): <<n>>, or <<>> for NaN
parseInt(text) ==
    LET s == TrimStart(text)
        negative == s # <<>> /\ s[1] = "-"
        unsigned == IF s # <<>> /\ s[1] \in {"-", "+"} THEN Tail(s) ELSE s
        hex == Len(unsigned) >= 2 /\ unsigned[1] = "0" /\ unsigned[2] \in {"x", "X"}
        magnitude == IF hex THEN ParseDigits(unsigned, 3, 16, <<>>)
                     ELSE ParseDigits(unsigned, 1, 10, <<>>)
    IN  IF magnitude = <<>> THEN <<>>
        ELSE IF negative THEN <<0 - magnitude[1]>>
        ELSE magnitude

\* parseInt(text) || fallback
ParseIntOr(text, fallback) ==
    LET n == parseInt(text)
    IN  IF n = <<>> \/ n[1] = 0 THEN fallback ELSE n[1]

\* the options of resetPasswordLimiter
windowMs == ParseIntOr(env.RATE_LIMIT_WINDOW_MS, 15 * 60 * 1000)
max == ParseIntOr(env.RATE_LIMIT_MAX_REQUESTS, 3)

\* the memory store of express-rate-limit: the record of ip after one more
\* request at time `at`; a record is started anew once its window has passed
Increment(store, ip, at) ==
    IF ip \in DOMAIN store /\ at < store[ip].resetTime
    THEN [store[ip] EXCEPT !.totalHits = @ + 1]
    ELSE [totalHits |-> 1, resetTime |-> at + windowMs]

\* resetPasswordLimiter in front of POST /request-reset: the request is
\* counted, and passed on to the handler while the count is within max
Limiter(ip, passed) ==
    LET record == Increment(hits, ip, clock)
    IN  /\ record.totalHits <= MaxRequests
        /\ passed <=> record.totalHits <= max
        /\ hits' = MapSet(hits, ip, record)

\* the token a request names ("": none)
TokenOf(body) == IF Has(body, "token") THEN body.token ELSE ""

\* what is recorded of a request naming a token, next to its response
AuthReply(op, token, wellFormed, r) ==
    <<[op |-> op, token |-> token, status |-> r.status, error |-> r.error,
       wellFormed |-> wellFormed,
       present |-> token \in DOMAIN resetTokens,
       late |-> token \in DOMAIN expiryOf /\ clock > expiryOf[token],
       prior |-> IF token \in DOMAIN resetCount THEN resetCount[token] ELSE 0]>>

\* POST /request-reset up to `await sendPasswordResetEmail`
\* resetToken is what crypto.randomBytes(32).toString('hex') returns: a
\* text that was not returned before
RequestReset(ip, body, resetToken) ==
    /\ Limiter(ip, TRUE)
    /\ requestResetSchema(body) = NoError
    /\ resetToken \notin DOMAIN expiryOf
    /\ resetTokens' = MapSet(resetTokens, resetToken,
          [email |-> toLowerCase(body.email), expiry |-> clock + ResetLifetime,
           used |-> FALSE, createdAt |-> clock, usedAt |-> <<>>])
    /\ expiryOf' = MapSet(expiryOf, resetToken, clock + ResetLifetime)
    /\ resetCount' = MapSet(resetCount, resetToken, 0)
    /\ pendingMail' = pendingMail \cup {resetToken}
    /\ UNCHANGED <<mqttVars, idVars, dashVars, clock, mailbox, authReply>>

\* the response of POST /request-reset to a request that is refused
Refused(status, error) ==
    <<[op |-> "request", token |-> "", status |-> status, error |-> error,
       wellFormed |-> FALSE, present |-> FALSE, late |-> FALSE, prior |-> 0]>>

\* POST /request-reset with a body the schema rejects
RequestResetInvalid(ip, body) ==
    /\ Limiter(ip, TRUE)
    /\ requestResetSchema(body) # NoError
    /\ authReply' = Refused(400, requestResetSchema(body))
    /\ UNCHANGED <<mqttVars, idVars, dashVars, clock, resetTokens, pendingMail, mailbox,
                   expiryOf, resetCount>>

\* POST /request-reset answered by resetPasswordLimiter: the handler does
\* not run
RequestResetLimited(ip) ==
    /\ Limiter(ip, FALSE)
    /\ authReply' = Refused(429, ErrTooMany)
    /\ UNCHANGED <<mqttVars, idVars, dashVars, clock, resetTokens, pendingMail, mailbox,
                   expiryOf, resetCount>>

\* POST /request-reset from the result of sendPasswordResetEmail on
MailResult(resetToken, success) ==
    /\ resetToken \in pendingMail
    /\ pendingMail' = pendingMail \ {resetToken}
    /\ IF success
       THEN /\ mailbox' = mailbox \cup {resetToken}
            /\ authReply' = AuthReply("request", resetToken, TRUE, Reply(200, NoError, resetTokens))
            /\ UNCHANGED resetTokens
       ELSE /\ resetTokens' = MapDelete(resetTokens, resetToken)
            /\ authReply' = AuthReply("request", resetToken, TRUE,
                                      Reply(500, ErrSendFailed, resetTokens))
            /\ UNCHANGED mailbox
    /\ UNCHANGED <<mqttVars, idVars, dashVars, clock, hits, expiryOf, resetCount>>

\* POST /reset-password
ResetPassword(body) ==
    LET r == ResetOutcome(resetTokens, body, clock)
    IN  /\ resetTokens' = r.tokens
        /\ authReply' = AuthReply("reset", TokenOf(body),
                                  resetPasswordSchema(body) = NoError, r)
        /\ resetCount' = IF r.status = 200
                         THEN MapSet(resetCount, body.token, resetCount[body.token] + 1)
                         ELSE resetCount
        /\ UNCHANGED <<mqttVars, idVars, dashVars, clock, pendingMail, mailbox, hits,
                       expiryOf>>

\* GET /validate-reset-token
ValidateResetToken(query) ==
    LET r == ValidateOutcome(resetTokens, query, clock)
    IN  /\ resetTokens' = r.tokens
        /\ authReply' = AuthReply("validate", TokenOf(query), ~Missing(query), r)
        /\ UNCHANGED <<mqttVars, idVars, dashVars, clock, pendingMail, mailbox, hits,
                       expiryOf, resetCount>>

\* the clock advances by a millisecond or by the lifetime of a token
TickSteps == {1, ResetLifetime}
TicksTaken == (clock \div ResetLifetime) + (clock % ResetLifetime)
Tick(d) ==
    /\ clock' = clock + d
    /\ UNCHANGED <<mqttVars, authVars, idVars, dashVars>>

(***************************************************************************)
(* utils/topicIdGenerator.js.                                              *)
(***************************************************************************)
maxAttempts == 1000
\* attempts after which the candidate takes four random digits
ExtraRandomAfter == 100
\* timestamp.slice(0, 11)
TimestampPrefix == 11
TopicIdLength == 15
\* the size of usedIds above which it is pruned, and the number of ids kept
PruneAbove == 10000
PruneKeep == 5000

\* Date.now().toString() at clock reading t: the process started at
\* 1700000000000, so the text is "1700" and the nine digits of t
EpochPrefix == <<"1", "7", "0", "0">>
ClockDigits == 9

\* str.padStart(n, ch)
RECURSIVE padStart(_, _, _)
padStart(str, n, ch) == IF Len(str) >= n THEN str ELSE padStart(<<ch>> \o str, n, ch)

\* str.substring(0, n)
substring(str, n) == SubSeq(str, 1, IF Len(str) < n THEN Len(str) ELSE n)

DateNowString(t) == EpochPrefix \o padStart(NatToChars(t), ClockDigits, "0")

\* the values one source of randomness returns call after call: a pattern
\* that repeats
StreamAt(pattern, k) == pattern[((k - 1) % Len(pattern)) + 1]

\* secureRandom(10, 99) and secureRandom(1000, 9999), call after call
Rnd2Streams == {<<10>>, <<10, 99>>}
Rnd4Streams == {<<1000>>, <<1000, 9999>>}
\* crypto.randomBytes(8).toString('hex')
HexLow == <<"0", "1", "2", "3", "4", "5", "6", "7", "8", "9", "a", "b", "c", "d", "e", "f">>
HexHigh == <<"f", "f", "f", "f", "f", "f", "f", "f", "f", "f", "f", "f", "f", "f", "f", "f">>
HexFallbacks == {HexLow, HexHigh}
\* the attempt after which Date.now() reads one millisecond more (0: never)
TickAts == {0, 1}

\* parseInt(char, 16) for 'a'..'f'
HexLetterVal(c) ==
    CASE c = "a" -> 10 [] c = "b" -> 11 [] c = "c" -> 12
      [] c = "d" -> 13 [] c = "e" -> 14 [] c = "f" -> 15

\* randomHex.replace(/[a-f]/g, char => (parseInt(char, 16) + 1).toString())
RECURSIVE ReplaceHexLetters(_)
ReplaceHexLetters(hex) ==
    IF hex = <<>> THEN <<>>
    ELSE (IF Head(hex) \in {"a", "b", "c", "d", "e", "f"}
          THEN NatToChars(HexLetterVal(Head(hex)) + 1)
          ELSE <<Head(hex)>>) \o ReplaceHexLetters(Tail(hex))

\* the clock reading and the candidate of attempt number n of the do-while
\* loop of generateTopicId
TimeAt(t0, tickAt, n) == IF tickAt # 0 /\ n > tickAt THEN t0 + 1 ELSE t0
Candidate(t0, rnd2, rnd4, tickAt, n) ==
    LET timestamp == DateNowString(TimeAt(t0, tickAt, n))
        randomDigits == NatToChars(StreamAt(rnd2, n))
    IN  IF n > ExtraRandomAfter
        THEN SubSeq(timestamp, 1, TimestampPrefix)
                 \o NatToChars(StreamAt(rnd4, n - ExtraRandomAfter))
        ELSE timestamp \o randomDigits

\* the number of attempts the loop makes: it goes on while the candidate is
\* in usedIds and attempts < maxAttempts
LastAttempt(ids, t0, rnd2, rnd4, tickAt) ==
    LET Free(n) == ~SetHas(ids, Candidate(t0, rnd2, rnd4, tickAt, n))
    IN  IF \E n \in 1..(maxAttempts - 1) : Free(n)
        THEN CHOOSE n \in 1..(maxAttempts - 1) : Free(n) /\ \A k \in 1..(n - 1) : ~Free(k)
        ELSE maxAttempts

\* the loop: the candidate it ends with, the attempts made, the clock then
LoopResult(t0, rnd2, rnd4, tickAt, n) ==
    [topicId |-> Candidate(t0, rnd2, rnd4, tickAt, n), attempts |-> n,
     time |-> TimeAt(t0, tickAt, n)]
GenerateLoop(ids, t0, rnd2, rnd4, tickAt) ==
    LoopResult(t0, rnd2, rnd4, tickAt, LastAttempt(ids, t0, rnd2, rnd4, tickAt))

\* the identifier cut or padded to 15 characters
FixLength(topicId) ==
    IF Len(topicId) > TopicIdLength THEN substring(topicId, TopicIdLength)
    ELSE IF Len(topicId) < TopicIdLength THEN padStart(topicId, TopicIdLength, "0")
    ELSE topicId

\* Faulty variant: the letters of the hex text are kept
FallbackKeepsLetters(hex) == substring(hex, TopicIdLength)

\* the crypto fallback of generateTopicId
Fallback(hex) == substring(ReplaceHexLetters(hex), TopicIdLength)

\* Faulty variant: the clean-up keeps the oldest identifiers
PruneKeepsOldest(ids) ==
    IF Len(ids) > PruneAbove
    THEN SubSeq(ids, 1, PruneKeep)
    ELSE ids

\* usedIds after the clean-up that follows usedIds.add
Prune(ids) ==
    IF Len(ids) > PruneAbove
    THEN SubSeq(ids, Len(ids) - PruneKeep + 1, Len(ids))
    ELSE ids

\* generateTopicId(): the identifier returned and usedIds after the call
generateTopicId(ids, t0, rnd2, rnd4, hex, tickAt) ==
    LET Finish(loop, collided, topicId) ==
            [topicId |-> topicId, attempts |-> loop.attempts, fallback |-> collided,
             candidate |-> loop.topicId, time |-> loop.time,
             usedIds |-> Prune(SetAdd(ids, topicId))]
        AfterLoop(loop) ==
            Finish(loop, SetHas(ids, loop.topicId),
                   FixLength(IF SetHas(ids, loop.topicId)
                             THEN Fallback(hex) ELSE loop.topicId))
    IN  AfterLoop(GenerateLoop(ids, t0, rnd2, rnd4, tickAt))

\* validateTopicId(topicId): /^\d{15}$/.test(topicId), matched from the
\* first character on, a digit at a time
RECURSIVE MatchDigits(_, _, _)
MatchDigits(str, i, n) ==
    IF n = 0 THEN i
    ELSE IF i <= Len(str) /\ IsDigit(str[i]) THEN MatchDigits(str, i + 1, n - 1)
    ELSE 0
\* Faulty variant: the pattern is not anchored at the end
validateTopicIdPrefix(topicId) == MatchDigits(topicId, 1, TopicIdLength) # 0

validateTopicId(topicId) == MatchDigits(topicId, 1, TopicIdLength) = Len(topicId) + 1

\* identifiers a caller may pass to validateTopicId
Digits14 == <<"1", "2", "3", "4", "5", "6", "7", "8", "9", "0", "1", "2", "3", "4">>
IdInputs ==
    {<<>>, Digits14, Digits14 \o <<"5">>, Digits14 \o <<"5", "6">>,
     Digits14 \o <<"x">>, <<"x">> \o Digits14, Digits14 \o <<"5", "\n">>,
     <<" ">> \o Digits14 \o <<"5">>, Digits14 \o <<"-">>, <<"-">> \o Digits14}

\* GET /generate-topic-id
GenerateTopicId ==
    /\ Len(returnedIds) < MaxCalls
    /\ \E rnd2 \in Rnd2Streams, rnd4 \in Rnd4Streams, hex \in HexFallbacks, tickAt \in TickAts :
          \E g \in {generateTopicId(usedIds, clock, rnd2, rnd4, hex, tickAt)} :
              /\ tickAt # 0 => TicksTaken < MaxTicks
              /\ usedIds' = g.usedIds
              /\ returnedIds' = Append(returnedIds, g.topicId)
              /\ lastGen' = <<[topicId |-> g.topicId, attempts |-> g.attempts,
                               candidate |-> g.candidate, before |-> usedIds]>>
              /\ clock' = g.time
    /\ UNCHANGED <<mqttVars, authVars, dashVars, lastValid>>

\* a call of validateTopicId
ValidateTopicId(topicId) ==
    /\ lastValid' = <<[topicId |-> topicId, result |-> validateTopicId(topicId)]>>
    /\ UNCHANGED <<mqttVars, clock, authVars, dashVars, usedIds, returnedIds, lastGen>>

(***************************************************************************)
(* routes/dashboard.js: dashboards and shared snapshots, as JavaScript     *)
(* objects (JObj): a member list in insertion order.                       *)
(***************************************************************************)
Kid == <<"i", "d">>
Kname == <<"n", "a", "m", "e">>
Kwidgets == <<"w", "i", "d", "g", "e", "t", "s">>
Klayout == <<"l", "a", "y", "o", "u", "t">>
Klayouts == <<"l", "a", "y", "o", "u", "t", "s">>
KdeviceCount == <<"d", "e", "v", "i", "c", "e", "C", "o", "u", "n", "t">>
Kstats == <<"s", "t", "a", "t", "s">>
KuserId == <<"u", "s", "e", "r", "I", "d">>
KcreatedAt == <<"c", "r", "e", "a", "t", "e", "d", "A", "t">>
KupdatedAt == <<"u", "p", "d", "a", "t", "e", "d", "A", "t">>
KisPublished == <<"i", "s", "P", "u", "b", "l", "i", "s", "h", "e", "d">>
KpublishedAt == <<"p", "u", "b", "l", "i", "s", "h", "e", "d", "A", "t">>
KshareableLink == <<"s", "h", "a", "r", "e", "a", "b", "l", "e", "L", "i", "n", "k">>
KsharePassword == <<"s", "h", "a", "r", "e", "P", "a", "s", "s", "w", "o", "r", "d">>
KshareableId == <<"s", "h", "a", "r", "e", "a", "b", "l", "e", "I", "d">>
Ktype == <<"t", "y", "p", "e">>
Ktitle == <<"t", "i", "t", "l", "e">>
Kx == <<"x">>
Ky == <<"y">>
Kw == <<"w">>
Kh == <<"h">>
Kdata == <<"d", "a", "t", "a">>
Kconfig == <<"c", "o", "n", "f", "i", "g">>
KmqttTopic == <<"m", "q", "t", "t", "T", "o", "p", "i", "c">>
KvaluePath == <<"v", "a", "l", "u", "e", "P", "a", "t", "h">>
KpanelId == <<"p", "a", "n", "e", "l", "I", "d">>
KisShared == <<"i", "s", "S", "h", "a", "r", "e", "d">>
KoriginalDashboardId == <<"o", "r", "i", "g", "i", "n", "a", "l", "D", "a", "s", "h", "b",
                          "o", "a", "r", "d", "I", "d">>
KtotalWidgets == <<"t", "o", "t", "a", "l", "W", "i", "d", "g", "e", "t", "s">>
KgridUtilization == <<"g", "r", "i", "d", "U", "t", "i", "l", "i", "z", "a", "t", "i", "o",
                      "n">>

\* obj.hasOwnProperty(k); { ...a, ...b }
HasKey(obj, k) == \E i \in 1..Len(obj.items) : obj.items[i].key = k
RECURSIVE SpreadInto(_, _, _)
SpreadInto(members, more, i) ==
    IF i > Len(more) THEN members
    ELSE SpreadInto(ObjSet(members, more[i].key, more[i].val), more, i + 1)
Spread(a, b) == JObj(SpreadInto(a.items, b.items, 1))
\* obj with obj[k] = v
With(obj, k, v) == JObj(ObjSet(obj.items, k, v))

\* Joi reports the first error; it is named here by its Joi error type
JoiRequired == "any.required"
JoiUnknown == "object.unknown"
JoiBase(kind) ==
    CASE kind = "string" -> "string.base" [] kind = "number" -> "number.base"
      [] kind = "object" -> "object.base" [] kind = "array" -> "array.base"
      [] kind = "boolean" -> "boolean.base"
JoiEmpty == "string.empty"

\* one key of a Joi.object schema
Key(k, kind, required) == [key |-> k, kind |-> kind, required |-> required]

\* the error of one value against Joi.string(), number(), object(), array(),
\* boolean()
KindError(v, kind) ==
    CASE kind = "string" ->
            IF v.kind # "string" THEN JoiBase(kind)
            ELSE IF v.str = <<>> THEN JoiEmpty ELSE NoError
      [] kind = "number" -> IF v.kind = "number" THEN NoError ELSE JoiBase(kind)
      [] kind = "object" -> IF v.kind = "object" THEN NoError ELSE JoiBase(kind)
      [] kind = "array" -> IF v.kind = "array" THEN NoError ELSE JoiBase(kind)
      [] kind = "boolean" -> IF v.kind \in {"true", "false"} THEN NoError ELSE JoiBase(kind)

\* the first error among the keys of a schema, from key number i on
RECURSIVE KeysError(_, _, _)
KeysError(obj, schema, i) ==
    IF i > Len(schema) THEN NoError
    ELSE LET k == schema[i]
             e == IF ~HasKey(obj, k.key)
                  THEN (IF k.required THEN JoiRequired ELSE NoError)
                  ELSE KindError(GetProp(obj, k.key), k.kind)
         IN  IF e # NoError THEN e ELSE KeysError(obj, schema, i + 1)

\* a key the schema does not name: Joi.object({...}) does not allow it
UnknownError(obj, schema) ==
    IF \E i \in 1..Len(obj.items) :
          \A j \in 1..Len(schema) : schema[j].key # obj.items[i].key
    THEN JoiUnknown ELSE NoError

\* Joi.object({...}).validate(obj)
ObjectError(obj, schema) ==
    IF obj.kind # "object" THEN JoiBase("object")
    ELSE IF KeysError(obj, schema, 1) # NoError THEN KeysError(obj, schema, 1)
    ELSE UnknownError(obj, schema)

\* the first error among the items of an array, each against schema
RECURSIVE ItemsError(_, _, _)
ItemsError(arr, schema, i) ==
    IF i > Len(arr) THEN NoError
    ELSE IF ObjectError(arr[i].val, schema) # NoError THEN ObjectError(arr[i].val, schema)
    ELSE ItemsError(arr, schema, i + 1)

widgetSchema ==
    <<Key(Kid, "string", TRUE), Key(Ktype, "string", TRUE), Key(Ktitle, "string", FALSE),
      Key(Kx, "number", TRUE), Key(Ky, "number", TRUE), Key(Kw, "number", TRUE),
      Key(Kh, "number", TRUE), Key(Kdata, "object", FALSE), Key(Kconfig, "object", FALSE)>>

saveDashboardKeys ==
    <<Key(Kid, "string", FALSE), Key(Kname, "string", TRUE), Key(Kwidgets, "array", TRUE),
      Key(Klayout, "object", FALSE), Key(KdeviceCount, "number", FALSE),
      Key(Kstats, "object", FALSE)>>

\* saveDashboardSchema.validate(req.body): the keys in schema order, the
\* items of widgets with the widgets key, keys not in the schema last
saveDashboardSchema(body) ==
    IF body.kind # "object" THEN JoiBase("object")
    ELSE IF KeysError(body, SubSeq(saveDashboardKeys, 1, 3), 1) # NoError
         THEN KeysError(body, SubSeq(saveDashboardKeys, 1, 3), 1)
    ELSE IF ItemsError(GetProp(body, Kwidgets).items, widgetSchema, 1) # NoError
         THEN ItemsError(GetProp(body, Kwidgets).items, widgetSchema, 1)
    ELSE IF KeysError(body, saveDashboardKeys, 4) # NoError
         THEN KeysError(body, saveDashboardKeys, 4)
    ELSE UnknownError(body, saveDashboardKeys)

publishDashboardKeys ==
    <<Key(Kid, "string", TRUE), Key(Kname, "string", TRUE), Key(Kwidgets, "array", TRUE),
      Key(Klayout, "object", FALSE), Key(Klayouts, "object", FALSE),
      Key(KdeviceCount, "number", FALSE), Key(Kstats, "object", FALSE),
      Key(KisPublished, "boolean", FALSE), Key(KshareableLink, "string", FALSE),
      Key(KsharePassword, "string", FALSE), Key(KshareableId, "string", FALSE)>>

\* publishDashboardSchema.validate(req.body)
publishDashboardSchema(body) == ObjectError(body, publishDashboardKeys)

\* req.user is never set (app.js mounts no authentication): every request
\* runs as this user
Anonymous == <<"a", "n", "o", "n", "y", "m", "o", "u", "s">>
\* process.env.FRONTEND_URL || 'http://localhost:3000' of POST /publish
FrontendUrl ==
    IF env.FRONTEND_URL # <<>> THEN env.FRONTEND_URL
    ELSE <<"h", "t", "t", "p", ":", "/", "/", "l", "o", "c", "a", "l", "h", "o", "s", "t", ":",
           "3", "0", "0", "0">>
ErrNotFound == "Dashboard not found"
ErrSharedNotFound == "Shared dashboard not found"
ErrUnauthorizedUpdate == "Unauthorized to update this dashboard"
ErrUnauthorizedPublish == "Unauthorized to publish this dashboard"
ErrUnauthorizedAccess == "Unauthorized to access this dashboard"
ErrUnauthorizedDelete == "Unauthorized to delete this dashboard"

\* new Date().toISOString() at clock time t: the text naming that millisecond
toISOString(t) == JStr(DateNowString(t))

\* what Math.random().toString(36) returns, call after call
RandomTexts == {<<"0", ".", "k", "3", "x", "9", "a", "b", "q", "7", "z", "p", "1">>, <<"0",
                  ".", "5", "f", "m", "2", "c", "8", "w", "1", "y", "u", "d">>}
\* str.substr(2, 9) and str.substring(2, 8)
substr(str, from, n) == SubSeq(str, from + 1, IF Len(str) < from + n THEN Len(str) ELSE from + n)
substringFrom(str, from, to) == SubSeq(str, from + 1, IF Len(str) < to THEN Len(str) ELSE to)
UpperChar(c) ==
    IF \E i \in 1..Len(LowerCase) : LowerCase[i] = c
    THEN UpperCase[CHOOSE i \in 1..Len(LowerCase) : LowerCase[i] = c]
    ELSE c
toUpperCase(s) == [i \in 1..Len(s) |-> UpperChar(s[i])]

\* a || b for objects and arrays
OrElse(a, b) == IF Truthy(a) THEN a ELSE b

\* the widgets and request bodies of the model
WidgetPlain ==
    JObj(<<Member(Kid, JStr(<<"w", "1">>)), Member(Ktype, JStr(<<"g", "a", "u", "g", "e">>)),
           Member(Kx, JNum(0)), Member(Ky, JNum(0)), Member(Kw, JNum(4)), Member(Kh, JNum(3))>>)
\* the widget test-complete-flow.js saves: the topic binding is a key of the
\* widget itself
WidgetBound ==
    JObj(<<Member(Kid, JStr(<<"t", "e", "s", "t", "-", "w", "i", "d", "g", "e", "t", "-",
                              "1">>)), Member(Ktype, JStr(<<"g", "a", "u", "g", "e">>)),
           Member(Ktitle, JStr(<<"T", "e", "s", "t", " ", "G", "a", "u", "g", "e">>)),
           Member(KmqttTopic, JStr(<<"t", "e", "s", "t", "/", "g", "a", "u", "g", "e", "/",
                                     "t", "e", "m", "p">>)),
           Member(KvaluePath, JStr(<<"v", "a", "l", "u", "e">>)),
           Member(Kx, JNum(0)), Member(Ky, JNum(0)), Member(Kw, JNum(4)), Member(Kh, JNum(3))>>)
\* a widget whose topic binding sits inside config
WidgetConfig ==
    JObj(<<Member(Kid, JStr(<<"w", "2">>)), Member(Ktype, JStr(<<"c", "h", "a", "r", "t">>)),
           Member(Kx, JNum(4)), Member(Ky, JNum(0)), Member(Kw, JNum(4)), Member(Kh, JNum(3)),
           Member(Kconfig, JObj(<<Member(KmqttTopic, JStr(<<"t", "e", "s", "t", "/", "g",
                                                            "a", "u", "g", "e", "/", "t",
                                                            "e", "m", "p">>))>>))>>)

GivenId == <<"1", "2", "3", "4", "5", "6", "7", "8", "9", "0", "1", "2", "3", "4", "5">>
MissingId == <<"9", "9", "9", "9", "9", "9", "9", "9", "9", "9", "9", "9", "9", "9", "9">>

SaveTestBody ==
    JObj(<<Member(Kname, JStr(<<"T", "e", "s", "t", " ", "D", "a", "s", "h", "b", "o", "a",
                                "r", "d">>)), Member(Kwidgets, JArr(<<Member(<<>>, WidgetBound)>>))>>)
SavePlainBody ==
    JObj(<<Member(Kname, JStr(<<"A">>)), Member(Kwidgets, JArr(<<Member(<<>>, WidgetPlain)>>))>>)
SaveConfigBody ==
    JObj(<<Member(Kid, JStr(GivenId)), Member(Kname, JStr(<<"A">>)),
           Member(Kwidgets, JArr(<<Member(<<>>, WidgetConfig)>>))>>)
SaveNoNameBody == JObj(<<Member(Kwidgets, JArr(<<Member(<<>>, WidgetPlain)>>))>>)
\* an id that validateTopicId refuses, sent after the other members
SaveBadIdBody ==
    JObj(<<Member(Kname, JStr(<<"A">>)), Member(Kwidgets, JArr(<<Member(<<>>, WidgetPlain)>>)),
           Member(Kid, JStr(Digits14))>>)
SaveBodies == {SaveTestBody, SavePlainBody, SaveConfigBody, SaveNoNameBody, SaveBadIdBody}
\* what a client sends to PUT /update/:id
UpdateBodies == {SaveConfigBody, SaveNoNameBody}

\* what a client sends to POST /publish for dashboard id
PublishPlainBody(id) ==
    JObj(<<Member(Kid, JStr(id)), Member(Kname, JStr(<<"A">>)),
           Member(Kwidgets, JArr(<<Member(<<>>, WidgetPlain)>>))>>)
PublishNoNameBody(id) ==
    JObj(<<Member(Kid, JStr(id)), Member(Kwidgets, JArr(<<Member(<<>>, WidgetPlain)>>))>>)
PublishBodies(id) == {PublishPlainBody(id), PublishNoNameBody(id)}

\* the response of a dashboard route and the collections it leaves
DashOutcome(status, error, id, dashboard, store, shared) ==
    [status |-> status, error |-> error, id |-> id, dashboard |-> dashboard,
     dashboards |-> store, sharedDashboards |-> shared]

\* res.json(obj): JSON.stringify leaves out the members that are undefined
Jsonable(obj) == JObj(SelectSeq(obj.items, LAMBDA mem : mem.val.kind # "undefined"))

\* Faulty variant: an id that is given is kept without validateTopicId
NeedsTopicIdWhenAbsent(body) ==
    ~Truthy(GetProp(body, Kid))

\* POST /save needs generateTopicId(): no id given, or one that is not valid
NeedsTopicId(body) ==
    \/ ~Truthy(GetProp(body, Kid))
    \/ ~validateTopicId(GetProp(body, Kid).str)

\* POST /save: body is req.body, topicId what generateTopicId() returns if it
\* is called, at the clock time of the request
\* userId is req.user?.id || 'anonymous'
SaveOutcomeAs(userId, store, shared, body, topicId, at) ==
    IF saveDashboardSchema(body) # NoError
    THEN DashOutcome(400, saveDashboardSchema(body), <<>>, JUndefined, store, shared)
    ELSE LET id == IF NeedsTopicId(body) THEN topicId ELSE GetProp(body, Kid).str
             dashboard ==
                 With(With(With(With(With(body, Kid, JStr(id)),
                     KuserId, JStr(userId)),
                     KcreatedAt, toISOString(at)),
                     KupdatedAt, toISOString(at)),
                     KisPublished, JFalse)
         IN  DashOutcome(200, NoError, id, dashboard, MapSet(store, id, dashboard), shared)

\* POST /save as app.js mounts the router: nothing sets req.user
SaveOutcome(store, shared, body, topicId, at) ==
    SaveOutcomeAs(Anonymous, store, shared, body, topicId, at)

\* PUT /update/:id
\* userId is req.user?.id || 'anonymous'
UpdateOutcomeAs(userId, store, shared, dashboardId, body, at) ==
    IF saveDashboardSchema(body) # NoError
    THEN DashOutcome(400, saveDashboardSchema(body), dashboardId, JUndefined, store, shared)
    ELSE IF dashboardId \notin DOMAIN store
    THEN DashOutcome(404, ErrNotFound, dashboardId, JUndefined, store, shared)
    ELSE IF GetProp(store[dashboardId], KuserId) # JStr(userId)
    THEN DashOutcome(403, ErrUnauthorizedUpdate, dashboardId, JUndefined, store, shared)
    ELSE LET updatedDashboard ==
                 With(With(With(Spread(store[dashboardId], body), Kid, JStr(dashboardId)),
                     KuserId, JStr(userId)),
                     KupdatedAt, toISOString(at))
         IN  DashOutcome(200, NoError, dashboardId, updatedDashboard,
                         MapSet(store, dashboardId, updatedDashboard), shared)

\* Faulty variant: an update of a dashboard that does not exist stores the body
UpdateOutcomeUpserts(store, shared, dashboardId, body, at) ==
    IF saveDashboardSchema(body) # NoError
    THEN DashOutcome(400, saveDashboardSchema(body), dashboardId, JUndefined, store, shared)
    ELSE IF dashboardId \in DOMAIN store /\ GetProp(store[dashboardId], KuserId) # JStr(Anonymous)
    THEN DashOutcome(403, ErrUnauthorizedUpdate, dashboardId, JUndefined, store, shared)
    ELSE LET existingDashboard ==
                 IF dashboardId \in DOMAIN store THEN store[dashboardId] ELSE JObj(<<>>)
             updatedDashboard ==
                 With(With(With(Spread(existingDashboard, body), Kid, JStr(dashboardId)),
                     KuserId, JStr(Anonymous)),
                     KupdatedAt, toISOString(at))
         IN  DashOutcome(200, NoError, dashboardId, updatedDashboard,
                         MapSet(store, dashboardId, updatedDashboard), shared)

\* Faulty variant: the id in the body replaces the id of the stored dashboard
UpdateOutcomeBodyIdWins(store, shared, dashboardId, body, at) ==
    IF saveDashboardSchema(body) # NoError
    THEN DashOutcome(400, saveDashboardSchema(body), dashboardId, JUndefined, store, shared)
    ELSE IF dashboardId \notin DOMAIN store
    THEN DashOutcome(404, ErrNotFound, dashboardId, JUndefined, store, shared)
    ELSE IF GetProp(store[dashboardId], KuserId) # JStr(Anonymous)
    THEN DashOutcome(403, ErrUnauthorizedUpdate, dashboardId, JUndefined, store, shared)
    ELSE LET updatedDashboard ==
                 With(With(Spread(store[dashboardId], body),
                     KuserId, JStr(Anonymous)),
                     KupdatedAt, toISOString(at))
         IN  DashOutcome(200, NoError, dashboardId, updatedDashboard,
                         MapSet(store, dashboardId, updatedDashboard), shared)

\* Faulty variant: an update also rewrites the widgets of the snapshot
UpdateOutcomeRefreshesSnapshot(store, shared, dashboardId, body, at) ==
    IF saveDashboardSchema(body) # NoError
    THEN DashOutcome(400, saveDashboardSchema(body), dashboardId, JUndefined, store, shared)
    ELSE IF dashboardId \notin DOMAIN store
    THEN DashOutcome(404, ErrNotFound, dashboardId, JUndefined, store, shared)
    ELSE IF GetProp(store[dashboardId], KuserId) # JStr(Anonymous)
    THEN DashOutcome(403, ErrUnauthorizedUpdate, dashboardId, JUndefined, store, shared)
    ELSE LET updatedDashboard ==
                 With(With(With(Spread(store[dashboardId], body), Kid, JStr(dashboardId)),
                     KuserId, JStr(Anonymous)),
                     KupdatedAt, toISOString(at))
             shareableId == GetProp(store[dashboardId], KshareableId).str
         IN  DashOutcome(200, NoError, dashboardId, updatedDashboard,
                         MapSet(store, dashboardId, updatedDashboard),
                         IF shareableId \in DOMAIN shared
                         THEN MapSet(shared, shareableId,
                                     With(shared[shareableId], Kwidgets,
                                          GetProp(updatedDashboard, Kwidgets)))
                         ELSE shared)

\* PUT /update/:id as app.js mounts the router: nothing sets req.user
UpdateOutcome(store, shared, dashboardId, body, at) ==
    UpdateOutcomeAs(Anonymous, store, shared, dashboardId, body, at)

\* `shared-${Date.now()}-${Math.random().toString(36).substr(2, 9)}`
ShareableId(at, random) == <<"s", "h", "a", "r", "e", "d",
                             "-">> \o DateNowString(at) \o <<"-">> \o substr(random, 2, 9)
\* `${process.env.FRONTEND_URL || 'http://localhost:3000'}/shared/${shareableId}`
ShareableLink(shareableId) == FrontendUrl \o <<"/", "s", "h", "a", "r", "e", "d",
                                               "/">> \o shareableId
SharePassword(random) == toUpperCase(substringFrom(random, 2, 8))

\* the snapshot POST /publish stores for a published dashboard
SharedDashboardData(publishedDashboard, shareableId, sharePassword, dashboardId) ==
    LET widgets == OrElse(GetProp(publishedDashboard, Kwidgets), JArr(<<>>))
    IN  JObj(<<Member(KpanelId, JStr(shareableId)),
               Member(Kwidgets, widgets),
               Member(Klayouts, OrElse(GetProp(publishedDashboard, Klayout), JObj(<<>>))),
               Member(Ktitle, OrElse(GetProp(publishedDashboard, Kname),
                                     JStr(<<"S", "h", "a", "r", "e", "d", " ", "D", "a", "s",
                                            "h", "b", "o", "a", "r", "d">>))),
               Member(Kstats, OrElse(GetProp(publishedDashboard, Kstats),
                                     JObj(<<Member(KtotalWidgets, JNum(Len(widgets.items))),
                                            Member(KgridUtilization, JNum(0))>>))),
               Member(KsharePassword, JStr(sharePassword)),
               Member(KpublishedAt, GetProp(publishedDashboard, KpublishedAt)),
               Member(KisShared, JTrue),
               Member(KoriginalDashboardId, JStr(dashboardId))>>)

\* POST /publish: random1 and random2 are the two results of Math.random()
\* userId is req.user?.id || 'anonymous'
PublishOutcomeAs(userId, store, shared, body, random1, random2, at) ==
    IF publishDashboardSchema(body) # NoError
    THEN DashOutcome(400, publishDashboardSchema(body), <<>>, JUndefined, store, shared)
    ELSE LET dashboardData ==
                 With(body, Klayout,
                      OrElse(GetProp(body, Klayout), OrElse(GetProp(body, Klayouts), JObj(<<>>))))
             id == GetProp(dashboardData, Kid).str
         IN  IF id \notin DOMAIN store
             THEN DashOutcome(404, ErrNotFound, id, JUndefined, store, shared)
             ELSE IF GetProp(store[id], KuserId) # JStr(userId)
             THEN DashOutcome(403, ErrUnauthorizedPublish, id, JUndefined, store, shared)
             ELSE LET shareableId == ShareableId(at, random1)
                      sharePassword == SharePassword(random2)
                      publishedDashboard ==
                          With(With(With(With(With(With(Spread(store[id], dashboardData),
                              KisPublished, JTrue),
                              KpublishedAt, toISOString(at)),
                              KshareableLink, JStr(ShareableLink(shareableId))),
                              KsharePassword, JStr(sharePassword)),
                              KshareableId, JStr(shareableId)),
                              KupdatedAt, toISOString(at))
                  IN  DashOutcome(200, NoError, id, publishedDashboard,
                                  MapSet(store, id, publishedDashboard),
                                  MapSet(shared, shareableId,
                                         SharedDashboardData(publishedDashboard, shareableId,
                                                             sharePassword, id)))

\* POST /publish as app.js mounts the router: nothing sets req.user
PublishOutcome(store, shared, body, random1, random2, at) ==
    PublishOutcomeAs(Anonymous, store, shared, body, random1, random2, at)

\* GET /:id: the dashboard of the response
\* Faulty variant: any caller may read a dashboard
GetOutcomeAsAnyone(userId, store, shared, dashboardId) ==
    IF dashboardId \notin DOMAIN store
    THEN DashOutcome(404, ErrNotFound, dashboardId, JUndefined, store, shared)
    ELSE LET dashboard == store[dashboardId]
         IN  DashOutcome(200, NoError, dashboardId,
                 Jsonable(JObj(<<Member(Kid, GetProp(dashboard, Kid)),
                                 Member(Kname, GetProp(dashboard, Kname)),
                                 Member(Kwidgets, GetProp(dashboard, Kwidgets)),
                                 Member(Klayout, GetProp(dashboard, Klayout)),
                                 Member(KdeviceCount, GetProp(dashboard, KdeviceCount)),
                                 Member(Kstats, GetProp(dashboard, Kstats)),
                                 Member(KisPublished, GetProp(dashboard, KisPublished)),
                                 Member(KcreatedAt, GetProp(dashboard, KcreatedAt)),
                                 Member(KupdatedAt, GetProp(dashboard, KupdatedAt)),
                                 Member(KpublishedAt, GetProp(dashboard, KpublishedAt))>>)),
                 store, shared)

\* userId is req.user?.id || 'anonymous'
GetOutcomeAs(userId, store, shared, dashboardId) ==
    IF dashboardId \notin DOMAIN store
    THEN DashOutcome(404, ErrNotFound, dashboardId, JUndefined, store, shared)
    ELSE IF GetProp(store[dashboardId], KuserId) # JStr(userId)
    THEN DashOutcome(403, ErrUnauthorizedAccess, dashboardId, JUndefined, store, shared)
    ELSE LET dashboard == store[dashboardId]
         IN  DashOutcome(200, NoError, dashboardId,
                 Jsonable(JObj(<<Member(Kid, GetProp(dashboard, Kid)),
                                 Member(Kname, GetProp(dashboard, Kname)),
                                 Member(Kwidgets, GetProp(dashboard, Kwidgets)),
                                 Member(Klayout, GetProp(dashboard, Klayout)),
                                 Member(KdeviceCount, GetProp(dashboard, KdeviceCount)),
                                 Member(Kstats, GetProp(dashboard, Kstats)),
                                 Member(KisPublished, GetProp(dashboard, KisPublished)),
                                 Member(KcreatedAt, GetProp(dashboard, KcreatedAt)),
                                 Member(KupdatedAt, GetProp(dashboard, KupdatedAt)),
                                 Member(KpublishedAt, GetProp(dashboard, KpublishedAt))>>)),
                 store, shared)

\* GET /:id as app.js mounts the router: nothing sets req.user
GetOutcome(store, shared, dashboardId) ==
    GetOutcomeAs(Anonymous, store, shared, dashboardId)

\* GET /shared/:shareableId without a password
GetSharedOutcome(store, shared, shareableId) ==
    IF shareableId \notin DOMAIN shared
    THEN DashOutcome(404, ErrSharedNotFound, shareableId, JUndefined, store, shared)
    ELSE DashOutcome(200, NoError, shareableId, shared[shareableId], store, shared)

\* DELETE /:id
\* userId is req.user?.id || 'anonymous'
DeleteOutcomeAs(userId, store, shared, dashboardId) ==
    IF dashboardId \notin DOMAIN store
    THEN DashOutcome(404, ErrNotFound, dashboardId, JUndefined, store, shared)
    ELSE IF GetProp(store[dashboardId], KuserId) # JStr(userId)
    THEN DashOutcome(403, ErrUnauthorizedDelete, dashboardId, JUndefined, store, shared)
    ELSE DashOutcome(200, NoError, dashboardId, JUndefined, MapDelete(store, dashboardId),
                     IF /\ Truthy(GetProp(store[dashboardId], KisPublished))
                        /\ Truthy(GetProp(store[dashboardId], KshareableId))
                     THEN MapDelete(shared, GetProp(store[dashboardId], KshareableId).str)
                     ELSE shared)

\* Faulty variant: the snapshot of a deleted dashboard stays
DeleteOutcomeKeepsSnapshot(store, shared, dashboardId) ==
    IF dashboardId \notin DOMAIN store
    THEN DashOutcome(404, ErrNotFound, dashboardId, JUndefined, store, shared)
    ELSE IF GetProp(store[dashboardId], KuserId) # JStr(Anonymous)
    THEN DashOutcome(403, ErrUnauthorizedDelete, dashboardId, JUndefined, store, shared)
    ELSE DashOutcome(200, NoError, dashboardId, JUndefined, MapDelete(store, dashboardId),
                     shared)

\* Faulty variant: deleting a dashboard that does not exist reports success
DeleteOutcomeMissingIsSuccess(store, shared, dashboardId) ==
    IF dashboardId \notin DOMAIN store
    THEN DashOutcome(200, NoError, dashboardId, JUndefined, store, shared)
    ELSE IF GetProp(store[dashboardId], KuserId) # JStr(Anonymous)
    THEN DashOutcome(403, ErrUnauthorizedDelete, dashboardId, JUndefined, store, shared)
    ELSE DashOutcome(200, NoError, dashboardId, JUndefined, MapDelete(store, dashboardId),
                     IF /\ Truthy(GetProp(store[dashboardId], KisPublished))
                        /\ Truthy(GetProp(store[dashboardId], KshareableId))
                     THEN MapDelete(shared, GetProp(store[dashboardId], KshareableId).str)
                     ELSE shared)

\* DELETE /:id as app.js mounts the router: nothing sets req.user
DeleteOutcome(store, shared, dashboardId) ==
    DeleteOutcomeAs(Anonymous, store, shared, dashboardId)

\* bodies for the fields a request need not carry: a save with a layout and
\* a device count, an update whose body names another id
Klg == <<"l", "g">>
LayoutSaved == JObj(<<Member(Klg, JArr(<<Member(<<>>, WidgetPlain)>>))>>)
SaveLayoutBody ==
    JObj(<<Member(Kid, JStr(GivenId)), Member(Kname, JStr(<<"A">>)),
           Member(Kwidgets, JArr(<<Member(<<>>, WidgetPlain)>>)),
           Member(Klayout, LayoutSaved), Member(KdeviceCount, JNum(2))>>)
UpdateOtherIdBody ==
    JObj(<<Member(Kid, JStr(MissingId)), Member(Kname, JStr(<<"B">>)),
           Member(Kwidgets, JArr(<<Member(<<>>, WidgetConfig)>>))>>)
FieldSaveBodies == {SaveLayoutBody}
FieldUpdateBodies == {UpdateOtherIdBody}
FieldPublishBodies(id) == {PublishPlainBody(id)}

\* what dashReply keeps of a request and its outcome
DashReply(op, request, o) ==
    <<[op |-> op, request |-> IF op = "save" THEN request ELSE JUndefined,
       id |-> IF op \in {"save", "update", "delete"} THEN o.id ELSE <<>>,
       status |-> o.status, error |-> o.error,
       dashboard |-> IF op \in {"get", "shared"} THEN o.dashboard ELSE JUndefined]>>

\* POST /save with a body that is refused or that names a valid id
\* what the random sources return to generateTopicId() when POST /save calls it
DashRnd2Streams == {<<10>>}
DashRnd4Streams == {<<1000>>}
DashHexFallbacks == {HexLow}

\* a save under an id not in use adds a dashboard: at most MaxDashboards
RoomFor(id) == id \in DOMAIN dashboards \/ Cardinality(DOMAIN dashboards) < MaxDashboards

SaveDashboard(body) ==
    /\ saveDashboardSchema(body) # NoError \/ ~NeedsTopicId(body)
    /\ saveDashboardSchema(body) = NoError => RoomFor(GetProp(body, Kid).str)
    /\ \E o \in {SaveOutcome(dashboards, sharedDashboards, body, <<>>, clock)} :
          /\ dashboards' = o.dashboards
          /\ dashReply' = DashReply("save", body, o)
    /\ UNCHANGED <<mqttVars, clock, authVars, idVars, sharedDashboards, publishedAs>>

\* POST /save with a body that makes the handler call generateTopicId()
SaveDashboardNewId(body) ==
    /\ saveDashboardSchema(body) = NoError
    /\ NeedsTopicId(body)
    /\ Len(returnedIds) < MaxNewIds
    /\ \E rnd2 \in DashRnd2Streams, rnd4 \in DashRnd4Streams, hex \in DashHexFallbacks :
          \E g \in {generateTopicId(usedIds, clock, rnd2, rnd4, hex, 0)} :
              /\ RoomFor(g.topicId)
              /\ usedIds' = g.usedIds
              /\ returnedIds' = Append(returnedIds, g.topicId)
              /\ lastGen' = <<[topicId |-> g.topicId, attempts |-> g.attempts,
                               candidate |-> g.candidate, before |-> usedIds]>>
              /\ clock' = g.time
              /\ \E o \in {SaveOutcome(dashboards, sharedDashboards, body, g.topicId, g.time)} :
                    /\ dashboards' = o.dashboards
                    /\ dashReply' = DashReply("save", body, o)
    /\ UNCHANGED <<mqttVars, authVars, lastValid, sharedDashboards, publishedAs>>

UpdateDashboard(dashboardId, body) ==
    /\ \E o \in {UpdateOutcome(dashboards, sharedDashboards, dashboardId, body, clock)} :
          /\ dashboards' = o.dashboards
          /\ sharedDashboards' = o.sharedDashboards
          /\ dashReply' = DashReply("update", body, o)
    /\ UNCHANGED <<mqttVars, clock, authVars, idVars, publishedAs>>

PublishDashboard(body) ==
    /\ \E random1 \in RandomTexts : \E random2 \in RandomTexts \ {random1} :
          \E o \in {PublishOutcome(dashboards, sharedDashboards, body, random1, random2, clock)} :
              /\ dashboards' = o.dashboards
              /\ sharedDashboards' = o.sharedDashboards
              /\ dashReply' = DashReply("publish", body, o)
              /\ publishedAs' =
                    IF o.status = 200
                    THEN MapSet(publishedAs, GetProp(o.dashboard, KshareableId).str,
                                GetProp(o.dashboard, Kwidgets))
                    ELSE publishedAs
    /\ UNCHANGED <<mqttVars, clock, authVars, idVars>>

GetDashboard(dashboardId) ==
    /\ \E o \in {GetOutcome(dashboards, sharedDashboards, dashboardId)} :
          dashReply' = DashReply("get", JStr(dashboardId), o)
    /\ UNCHANGED <<mqttVars, clock, authVars, idVars, dashboards, sharedDashboards, publishedAs>>

GetSharedDashboard(shareableId) ==
    /\ \E o \in {GetSharedOutcome(dashboards, sharedDashboards, shareableId)} :
          dashReply' = DashReply("shared", JStr(shareableId), o)
    /\ UNCHANGED <<mqttVars, clock, authVars, idVars, dashboards, sharedDashboards, publishedAs>>

DeleteDashboard(dashboardId) ==
    /\ \E o \in {DeleteOutcome(dashboards, sharedDashboards, dashboardId)} :
          /\ dashboards' = o.dashboards
          /\ sharedDashboards' = o.sharedDashboards
          /\ dashReply' = DashReply("delete", JStr(dashboardId), o)
    /\ UNCHANGED <<mqttVars, clock, authVars, idVars, publishedAs>>

\* clearStorage() of config/database.js; storage.sessions and
\* storage.devices, which it clears as well, are written by no code
clearStorage ==
    /\ resetTokens' = <<>>
    /\ dashboards' = <<>>
    /\ sharedDashboards' = <<>>
    /\ UNCHANGED <<mqttVars, clock, pendingMail, mailbox, authReply, hits, expiryOf,
                   resetCount, idVars, dashReply, publishedAs>>

\* req.user?.id || 'anonymous': user is the id an authentication middleware
\* put in req.user, <<>> when there is none
NoUser == <<>>
UserOne == <<"u", "1">>
Callers == {NoUser, UserOne}
UserId(user) == IF user = NoUser THEN Anonymous ELSE user

\* the routes behind a middleware that sets req.user for some callers
SaveDashboardAs(user, body) ==
    /\ saveDashboardSchema(body) # NoError \/ ~NeedsTopicId(body)
    /\ saveDashboardSchema(body) = NoError => RoomFor(GetProp(body, Kid).str)
    /\ \E o \in {SaveOutcomeAs(UserId(user), dashboards, sharedDashboards, body, <<>>, clock)} :
          /\ dashboards' = o.dashboards
          /\ dashReply' = DashReply("save", body, o)
    /\ UNCHANGED <<mqttVars, clock, authVars, idVars, sharedDashboards, publishedAs>>

UpdateDashboardAs(user, dashboardId, body) ==
    /\ \E o \in {UpdateOutcomeAs(UserId(user), dashboards, sharedDashboards, dashboardId, body,
                                  clock)} :
          /\ dashboards' = o.dashboards
          /\ sharedDashboards' = o.sharedDashboards
          /\ dashReply' = DashReply("update", body, o)
    /\ UNCHANGED <<mqttVars, clock, authVars, idVars, publishedAs>>

PublishDashboardAs(user, body) ==
    /\ \E random1 \in RandomTexts : \E random2 \in RandomTexts \ {random1} :
          \E o \in {PublishOutcomeAs(UserId(user), dashboards, sharedDashboards, body, random1,
                                     random2, clock)} :
              /\ dashboards' = o.dashboards
              /\ sharedDashboards' = o.sharedDashboards
              /\ dashReply' = DashReply("publish", body, o)
              /\ publishedAs' =
                    IF o.status = 200
                    THEN MapSet(publishedAs, GetProp(o.dashboard, KshareableId).str,
                                GetProp(o.dashboard, Kwidgets))
                    ELSE publishedAs
    /\ UNCHANGED <<mqttVars, clock, authVars, idVars>>

GetDashboardAs(user, dashboardId) ==
    /\ \E o \in {GetOutcomeAs(UserId(user), dashboards, sharedDashboards, dashboardId)} :
          dashReply' = DashReply("get", JStr(dashboardId), o)
    /\ UNCHANGED <<mqttVars, clock, authVars, idVars, dashboards, sharedDashboards, publishedAs>>

DeleteDashboardAs(user, dashboardId) ==
    /\ \E o \in {DeleteOutcomeAs(UserId(user), dashboards, sharedDashboards, dashboardId)} :
          /\ dashboards' = o.dashboards
          /\ sharedDashboards' = o.sharedDashboards
          /\ dashReply' = DashReply("delete", JStr(dashboardId), o)
    /\ UNCHANGED <<mqttVars, clock, authVars, idVars, publishedAs>>

\* the id of the dashboard the last request deleted
JustDeleted ==
    IF dashReply # <<>> /\ dashReply[1].op = "delete" /\ dashReply[1].status = 200
    THEN {dashReply[1].id}
    ELSE {}

\* the ids a client can name: those in use, the one just deleted, one never saved
DashboardIds == DOMAIN dashboards \cup JustDeleted \cup {MissingId}

(***************************************************************************)
(* routes/mqtt.js GET /health and BackendMQTTService.getHealth.            *)
(***************************************************************************)
Ksuccess == <<"s", "u", "c", "c", "e", "s", "s">>
Kmqtt == <<"m", "q", "t", "t">>
Kconnected == <<"c", "o", "n", "n", "e", "c", "t", "e", "d">>
KclientId == <<"c", "l", "i", "e", "n", "t", "I", "d">>
Ksubscriptions == <<"s", "u", "b", "s", "c", "r", "i", "p", "t", "i", "o", "n", "s">>
KknownTopics == <<"k", "n", "o", "w", "n", "T", "o", "p", "i", "c", "s">>

\* String.prototype.slice(from, to), for indexes that are not negative
slice(str, from, to) == SubSeq(str, from + 1, IF Len(str) < to THEN Len(str) ELSE to)

\* cfg.clientId of getConfigFromEnv: MQTT_CLIENT_ID, or
\* `iot-backend-${Math.random().toString(16).slice(2, 10)}`
ClientId(e, randomText) ==
    IF e.MQTT_CLIENT_ID # <<>> THEN e.MQTT_CLIENT_ID
    ELSE <<"i", "o", "t", "-", "b", "a", "c", "k", "e", "n", "d", "-">>
             \o slice(randomText, 2, 10)

\* Array.from(set): the members in the order of insertion
ArrayFrom(set) == set

\* Faulty variant: connected is reported as long as a client exists
getHealthWhileClientExists ==
    JObj(<<Member(Kconnected, IF client # NoClient THEN JTrue ELSE JFalse),
           Member(KclientId, IF client # NoClient THEN JStr(ClientId(env, lastRandom))
                             ELSE JUndefined),
           Member(Ksubscriptions,
                  JArr([i \in 1..Len(ArrayFrom(subscriptions)) |->
                            Member(<<>>, JStr(ArrayFrom(subscriptions)[i]))])),
           Member(KknownTopics, JNum(Cardinality(DOMAIN latestByTopic)))>>)

\* getHealth()
getHealth ==
    JObj(<<Member(Kconnected, IF isConnected THEN JTrue ELSE JFalse),
           Member(KclientId, IF client # NoClient THEN JStr(ClientId(env, lastRandom))
                             ELSE JUndefined),
           Member(Ksubscriptions,
                  JArr([i \in 1..Len(ArrayFrom(subscriptions)) |->
                            Member(<<>>, JStr(ArrayFrom(subscriptions)[i]))])),
           Member(KknownTopics, JNum(Cardinality(DOMAIN latestByTopic)))>>)

\* the value JSON.stringify serializes: members that are undefined are left
\* out, at every depth
RECURSIVE Serializable(_)
Serializable(v) ==
    CASE v.kind = "object" ->
            JObj([i \in 1..Len(SelectSeq(v.items, LAMBDA mem : mem.val.kind # "undefined")) |->
                    LET mem == SelectSeq(v.items, LAMBDA x : x.val.kind # "undefined")[i]
                    IN  Member(mem.key, Serializable(mem.val))])
      [] v.kind = "array" ->
            JArr([i \in 1..Len(v.items) |-> Member(<<>>, Serializable(v.items[i].val))])
      [] OTHER -> v

\* GET /api/mqtt/health: the text of the response body
HealthResponse ==
    JsonStringify(Serializable(JObj(<<Member(Ksuccess, JTrue), Member(Kmqtt, getHealth)>>)))

(***************************************************************************)
(* Specifications.                                                         *)
(*   Spec:    the server with no variable of process.env set: HTTP routes, *)
(*            downstream connections, broker events.                       *)
(*   SpecApi: the upstream client under callers of connect, subscribe,     *)
(*            publish and shutdown, with and without MQTT_SUBSCRIBE_TOPICS *)
(*            and MQTT_CLIENT_ID.                                          *)
(*   SpecUnsub: the upstream client under callers of subscribe and         *)
(*            unsubscribe.                                                 *)
(*   SpecMsg: the upstream client under inbound messages of every kind.    *)
(*   FairFlow: the end-to-end flow under a fair event loop.                *)
(*   SpecWs:  the downstream side under control messages of every kind,    *)
(*            with MQTT_CLIENT_ID set.                                     *)
(*   SpecAuth: the password reset routes, one client behind the limiter.   *)
(*   SpecLimiter: POST /request-reset behind its limiter, two clients.     *)
(*   SpecStorage: the collections under the routes and clearStorage.       *)
(***************************************************************************)
\* the payloads of the runs that are not about payload handling
PlainPayloads == {PayloadObj}
PlainMessages == {JObj(<<Member(<<"v">>, JNum(1))>>)}

ConnectionEvents ==
    \/ OnConnect
    \/ OnReconnect
    \/ OnClose
    \/ OnError
    \/ \E t \in Topics \cup {Wildcard}, g \in BOOLEAN : SubAck(t, g)

InitApp == Init /\ env = EnvUnset

Next ==
    \/ ConnectionEvents
    \/ OnMessage
    \/ MsgBudget(MaxEvents) /\ \E t \in Topics, p \in PlainPayloads : DevicePublish(t, p)
    \/ MsgBudget(MaxEvents) /\ \E t \in Topics, m \in PlainMessages : publish(t, m)
    \/ routerUse
    \/ init
    \/ \E c \in Conns, q \in Queries : OnWsConnection(c, q)
    \/ \E c \in Conns, msg \in WellFormedCtrl : OnWsMessage(c, msg)
    \/ \E c \in Conns : WsClosing(c)
    \/ \E c \in Conns : OnWsClose(c)

Spec == InitApp /\ [][Next]_vars

\* OnMessage is enabled exactly when a message is pending on a connected
\* client, and it is the one action that reads the clock
MessageHandled ==
    /\ client = "connected"
    /\ inflight # <<>>
    /\ now' = now + 1

SubscribeGranted == \E t \in Topics \cup {Wildcard} : SubAck(t, TRUE)

\* the end-to-end flow of test-complete-flow.js with a broker that stays up
\* and grants every subscribe: no connection is lost or closed
NextFlow ==
    \/ OnConnect
    \/ SubscribeGranted
    \/ OnMessage
    \/ MsgBudget(MaxEvents) /\ \E t \in Topics, p \in PlainPayloads : DevicePublish(t, p)
    \/ routerUse
    \/ init
    \/ \E c \in Conns, q \in Queries : OnWsConnection(c, q)
    \/ \E c \in Conns, msg \in WellFormedCtrl : OnWsMessage(c, msg)

\* the event loop runs the handler of every pending event: a pending message
\* is handled (weak fairness of OnMessage, stated on the clock), a connection
\* attempt succeeds and a subscribe is answered
FairFlow ==
    /\ InitApp /\ [][NextFlow]_vars
    /\ WF_now(MessageHandled) /\ WF_vars(OnConnect) /\ WF_vars(SubscribeGranted)

\* the downstream side under control messages of every kind
NextWs ==
    \/ OnConnect
    \/ SubscribeGranted
    \/ OnMessage
    \/ MsgBudget(MaxEvents) /\ \E t \in Topics, p \in PlainPayloads : DevicePublish(t, p)
    \/ routerUse
    \/ init
    \/ \E c \in Conns, q \in Queries : OnWsConnection(c, q)
    \/ \E c \in Conns, msg \in CtrlMsgs : OnWsMessage(c, msg)
    \/ \E c \in Conns : WsClosing(c)
    \/ \E c \in Conns : OnWsClose(c)

\* the downstream side runs with a configured client id
InitWs == Init /\ env = EnvNamed

SpecWs == InitWs /\ [][NextWs]_vars

\* the auth routes; a request names a token it was mailed, or a guessed one
KnownTokens == mailbox \cup {GuessedToken}

\* the bodies of the requests to /request-reset
RequestBodies == {[email |-> e] : e \in Emails \cup {<<>>}} \cup {<<>>}

\* the bodies of the requests to /reset-password: all keys given, or one of
\* them left out or empty
ResetBodies ==
    LET full == {[token |-> t, email |-> e, newPassword |-> pw] :
                    t \in KnownTokens, e \in Emails, pw \in Passwords}
        sound == {b \in full : b.email = EmailUser /\ b.newPassword = PasswordOk}
    IN  full
        \cup {[email |-> EmailUser, newPassword |-> PasswordOk],
              [email |-> EmailBad, newPassword |-> PasswordShort]}
        \cup {[token |-> b.token, newPassword |-> b.newPassword] : b \in sound}
        \cup {[token |-> b.token, email |-> b.email] : b \in sound}
        \cup {[b EXCEPT !.token = ""] : b \in sound}
        \cup {[b EXCEPT !.email = <<>>] : b \in sound}
        \cup {[b EXCEPT !.newPassword = <<>>] : b \in sound}

\* the query strings of the requests to /validate-reset-token
ValidateQueries ==
    {[token |-> t, email |-> e] : t \in KnownTokens \cup {""}, e \in Emails \cup {<<>>}}
    \cup {[token |-> t] : t \in KnownTokens}
    \cup {[email |-> EmailUser]}

NextAuth ==
    \/ \E ip \in AuthIps, body \in RequestBodies, t \in Tokens : RequestReset(ip, body, t)
    \/ \E ip \in AuthIps, body \in RequestBodies : RequestResetInvalid(ip, body)
    \/ \E ip \in AuthIps : RequestResetLimited(ip)
    \/ \E t \in Tokens, ok \in BOOLEAN : MailResult(t, ok)
    \/ \E body \in ResetBodies : ResetPassword(body)
    \/ \E query \in ValidateQueries : ValidateResetToken(query)
    \/ TicksTaken < MaxTicks /\ \E d \in TickSteps : Tick(d)

SpecAuth == InitApp /\ [][NextAuth]_vars

\* POST /request-reset behind its limiter, called by two clients, with the
\* limiter as configured by default and with a window of two milliseconds
\* for one request
InitLimiter == Init /\ env \in {EnvUnset, EnvDeployed}

NextLimiter ==
    \/ \E ip \in Ips, body \in RequestBodies, t \in Tokens : RequestReset(ip, body, t)
    \/ \E ip \in Ips, body \in RequestBodies : RequestResetInvalid(ip, body)
    \/ \E ip \in Ips : RequestResetLimited(ip)
    \/ \E t \in Tokens, ok \in BOOLEAN : MailResult(t, ok)
    \/ TicksTaken < MaxTicks /\ \E d \in TickSteps : Tick(d)

SpecLimiter == InitLimiter /\ [][NextLimiter]_vars

\* the identifier generator under any clock and any source of randomness
NextIds ==
    \/ GenerateTopicId
    \/ \E id \in IdInputs \cup Range(returnedIds) : ValidateTopicId(id)
    \/ TicksTaken < MaxTicks /\ Tick(1)

SpecIds == InitApp /\ [][NextIds]_vars

\* the dashboard routes, all within one millisecond
NextDash ==
    \/ \E body \in SaveBodies : SaveDashboard(body)
    \/ \E body \in SaveBodies : SaveDashboardNewId(body)
    \/ \E id \in DashboardIds, body \in UpdateBodies : UpdateDashboard(id, body)
    \/ \E id \in DashboardIds : \E body \in PublishBodies(id) : PublishDashboard(body)
    \/ \E id \in DashboardIds : GetDashboard(id)
    \/ \E id \in DOMAIN publishedAs : GetSharedDashboard(id)
    \/ \E id \in DashboardIds : DeleteDashboard(id)

SpecDash == InitApp /\ [][NextDash]_vars

\* milliseconds that pass in the runs of the routes with optional fields
MaxFieldTicks == 1

\* the dashboard routes on one dashboard saved with its optional fields,
\* while time passes
NextFields ==
    \/ \E body \in FieldSaveBodies : SaveDashboard(body)
    \/ \E id \in DashboardIds, body \in FieldUpdateBodies : UpdateDashboard(id, body)
    \/ \E id \in DashboardIds : \E body \in FieldPublishBodies(id) : PublishDashboard(body)
    \/ \E id \in DashboardIds : DeleteDashboard(id)
    \/ TicksTaken < MaxFieldTicks /\ Tick(1)

SpecFields == InitApp /\ [][NextFields]_vars

\* the dashboard routes called by two callers, one of them anonymous
OwnerUpdateBodies == {UpdateOtherIdBody, SaveNoNameBody}

NextOwners ==
    \/ \E user \in Callers : SaveDashboardAs(user, SaveConfigBody)
    \/ \E user \in Callers, id \in DashboardIds, body \in OwnerUpdateBodies :
          UpdateDashboardAs(user, id, body)
    \/ \E user \in Callers, id \in DashboardIds :
          \E body \in PublishBodies(id) : PublishDashboardAs(user, body)
    \/ \E user \in Callers, id \in DashboardIds : GetDashboardAs(user, id)
    \/ \E user \in Callers, id \in DashboardIds : DeleteDashboardAs(user, id)

\* with and without FRONTEND_URL
InitOwners == Init /\ env \in {EnvUnset, EnvStartServer, EnvDeployed}

SpecOwners == InitOwners /\ [][NextOwners]_vars

\* the collections under the routes and under a caller of clearStorage:
\* config/database.js exports it, and no file of the program calls it
NextStorage ==
    \/ NextOwners
    \/ \E ip \in AuthIps, body \in RequestBodies, t \in Tokens : RequestReset(ip, body, t)
    \/ \E t \in Tokens, ok \in BOOLEAN : MailResult(t, ok)
    \/ clearStorage

SpecStorage == InitApp /\ [][NextStorage]_vars

\* the process has run for a while: n identifiers were issued, one in each
\* of the first n milliseconds, and the set is one or two calls from its
\* clean-up
IssuedIds(n) == [i \in 1..n |-> DateNowString(i - 1) \o <<"1", "0">>]

InitIssued ==
    /\ InitServices
    /\ env = EnvUnset
    /\ \E n \in {PruneAbove - 1, PruneAbove} :
          /\ clock = n
          /\ usedIds = IssuedIds(n)

NextIssued ==
    \/ GenerateTopicId
    \/ clock < PruneAbove /\ Tick(1)

SpecIssued == InitIssued /\ [][NextIssued]_vars

\* the methods of the upstream client and the events of its connection,
\* with and without MQTT_SUBSCRIBE_TOPICS and MQTT_CLIENT_ID; the messages
\* that come in are handled in the runs of Spec and SpecMsg
InitApi == Init /\ env \in {EnvUnset, EnvTwoTopics}

NextApi ==
    \/ ConnectionEvents
    \/ MsgBudget(MaxEvents) /\ \E t \in Topics, m \in PlainMessages : publish(t, m)
    \/ routerUse
    \/ \E t \in Topics : subscribe(t)
    \/ shutdown

SpecApi == InitApi /\ [][NextApi]_vars

\* subscribe and unsubscribe in any order, connected or not
NextUnsub ==
    \/ ConnectionEvents
    \/ routerUse
    \/ \E t \in Topics : subscribe(t)
    \/ \E t \in Topics : unsubscribe(t)
    \/ \E t \in Topics, d \in BOOLEAN : UnsubAck(t, d)
    \/ shutdown

SpecUnsub == InitApi /\ [][NextUnsub]_vars


NextMsg ==
    \/ ConnectionEvents
    \/ OnMessage
    \/ MsgBudget(MaxMsgs) /\ \E t \in Topics, p \in Payloads : DevicePublish(t, p)
    \/ MsgBudget(MaxMsgs) /\ \E t \in Topics, m \in Messages : publish(t, m)
    \/ routerUse
    \/ shutdown

SpecMsg == InitApp /\ [][NextMsg]_vars

\* the upstream client against a broker that drops connections and refuses
\* attempts at any time
NextRetry ==
    \/ ConnectionEvents
    \/ routerUse
    \/ \E t \in Topics : subscribe(t)
    \/ shutdown

\* reconnectPeriod is 5000 and nothing clears the timer but shutdown: the
\* timer of a closed client fires (weak fairness of OnReconnect); the broker
\* is reachable: of the attempts made, one succeeds (strong fairness of
\* OnConnect, which a failed attempt disables)
FairRetry ==
    /\ InitApp /\ [][NextRetry]_vars
    /\ WF_vars(OnReconnect) /\ SF_vars(OnConnect)

(***************************************************************************)
(* Properties.                                                             *)
(***************************************************************************)
\* number of calls of send on connection c in the sequence sent
Sends(sent, c) == Len(SelectSeq(sent, LAMBDA d : d = c))

Last(seq) == seq[Len(seq)]

\* C1: for every event and every connection open when it is emitted, send
\* is called on the connection once if its subscription set is empty or
\* holds the event's topic, and not at all otherwise; a connection whose
\* send did not fail holds the envelope of the event, tagged "mqtt".
C1_FanOutIffSubscribed ==
    fanout # <<>> =>
        \A c \in Conns :
            readyState[c] = OPEN =>
                /\ Sends(fanout[1].sent, c) =
                      IF wsSubs[c] = {} \/ JStr(fanout[1].topic) \in wsSubs[c]
                      THEN 1 ELSE 0
                /\ (Sends(fanout[1].sent, c) = 1 /\ c \notin fanout[1].threw) =>
                      /\ received[c] # <<>>
                      /\ Last(received[c]).type = "mqtt"
                      /\ Last(received[c]).topic = fanout[1].topic

\* a connection subscribed to {"a/b"} alone was sent an event on "a/b", and
\* in the same fan-out another one, subscribed to "c/d" alone, was not
C1_Witness ==
    /\ fanout # <<>>
    /\ fanout[1].topic = TopicAB
    /\ \E c, d \in Conns :
          /\ readyState[c] = OPEN /\ wsSubs[c] = {JStr(TopicAB)}
          /\ readyState[d] = OPEN /\ wsSubs[d] = {JStr(TopicCD)}
          /\ Sends(fanout[1].sent, c) = 1
          /\ Sends(fanout[1].sent, d) = 0

\* C2: a connection that is open with an empty subscription set is sent
\* every event, whatever the topic.
C2_EmptySetReceivesAll ==
    fanout # <<>> =>
        \A c \in Conns :
            (readyState[c] = OPEN /\ wsSubs[c] = {}) =>
                \E i \in 1..Len(fanout[1].sent) : fanout[1].sent[i] = c

\* a connection that gave no topics was sent an event on "c/d"
C2_Witness ==
    /\ fanout # <<>>
    /\ fanout[1].topic = TopicCD
    /\ \E c \in Conns :
          /\ readyState[c] = OPEN /\ wsSubs[c] = {}
          /\ received[c] # <<>> /\ Last(received[c]).topic = TopicCD

\* C3: once a downstream connection is subscribed to T and a message is
\* published on T, the connection eventually receives the envelope (or the
\* upstream connection is lost, or the downstream connection closes, fails
\* or unsubscribes).
C3_PublishedEventuallyDelivered ==
    \A c \in Conns : \A t \in Topics :
        (<<c, t>> \in awaiting) ~> (<<c, t>> \notin awaiting)

\* C4: at every 'connect' event, a subscribe is issued for every topic whose
\* subscribe call was deferred since the previous connect (or shutdown).
C4_DeferredSubscribesReplayed ==
    lastConnect # <<>> =>
        \A t \in lastConnect[1].wanted :
            \E i \in 1..Len(lastConnect[1].issued) : lastConnect[1].issued[i] = t

\* the client connected with two deferred subscribes pending, after a close
C4_Witness ==
    /\ lastConnect # <<>>
    /\ lastConnect[1].wanted = {TopicAB, TopicCD}
    /\ env = EnvUnset
    /\ {TopicAB, TopicCD} \subseteq BagToSet(subReqs)
    /\ ~wasShutdown

\* C5: every 'connect' event, the first and the later ones, issues a
\* subscribe for every configured topic: "#" when no list is configured,
\* "a/b" and "c/d" for the list "a/b, c/d".
C5_ConfiguredTopicsOnEveryConnect ==
    lastConnect # <<>> =>
        LET issued == Range(lastConnect[1].issued)
        IN  /\ env = EnvUnset => Wildcard \in issued
            /\ env = EnvTwoTopics => {TopicAB, TopicCD} \subseteq issued

\* a reconnect: a subscription granted in an earlier session is still
\* listed, the broker holds none yet, and the subscribes are out again
C5_Witness ==
    /\ lastConnect # <<>>
    /\ ~wasShutdown
    /\ client = "connected"
    /\ env = EnvTwoTopics
    /\ Range(subscriptions) = {TopicAB, TopicCD}
    /\ brokerSubs = {}
    /\ subReqs = SetToBag({TopicAB, TopicCD})

\* C6: once shutdown() has been called there is no client again.
C6_ShutdownIsFinal == wasShutdown => client = NoClient

\* the data JSON.parse must yield for each payload of the model
ExpectedData(payload) ==
    CASE payload = PayloadNum -> JNum(42)
      [] payload = PayloadObj -> JObj(<<Member(<<"v">>, JNum(1))>>)
      [] payload = PayloadText -> JStr(PayloadText)

\* C7: the i-th message handled made the i-th record and the i-th event;
\* raw is the payload text, data its JSON value, or the text itself when it
\* is not JSON.
C7_EveryMessageMakesARecord ==
    /\ Len(hist) = now
    /\ \A i \in 1..Len(hist) :
          /\ hist[i].receivedAt = i
          /\ hist[i].raw \in Payloads
          /\ hist[i].data = ExpectedData(hist[i].raw)
          /\ hist[i].topic \in DOMAIN latestByTopic

\* the payload "not json" was handled and is cached as text
C7_Witness ==
    \E t \in Topics :
        /\ getLatest(t) # <<>>
        /\ getLatest(t)[1].raw = PayloadText
        /\ getLatest(t)[1].data = JStr(PayloadText)

\* the last record of the history h on topic t: <<record>>, or <<>>
LastOn(h, t) ==
    LET on == SelectSeq(h, LAMBDA r : r.topic = t)
    IN  IF on = <<>> THEN <<>> ELSE <<on[Len(on)]>>

\* C8: getLatest(t) is the record of the last message received on t, null
\* if there was none; so a message on another topic leaves it alone.
C8_LatestIsMostRecent ==
    \A t \in Topics : getLatest(t) = LastOn(hist, t)

\* a second message on a topic has replaced the record of the first
C8_Witness ==
    /\ Len(hist) >= 2
    /\ hist[1].topic = hist[2].topic
    /\ hist[1].raw # hist[2].raw
    /\ getLatest(hist[2].topic) = <<hist[2]>>

\* C9: close, error, reconnect and shutdown leave every cached record as it
\* was.
C9_ConnectivityKeepsCache ==
    [][(OnClose \/ OnError \/ OnReconnect \/ shutdown) =>
          \A t \in Topics : getLatest(t)' = getLatest(t)]_vars

\* the connection was lost after a message had been cached
C9_Witness ==
    /\ client = "closed"
    /\ \E t \in Topics : getLatest(t) # <<>>

\* C10: when send fails on some connection, every open connection that
\* matches the event is still sent it, and those whose send did not fail
\* hold its envelope.
C10_SendFailureIsIsolated ==
    (fanout # <<>> /\ fanout[1].threw # {}) =>
        \A c \in Conns :
            (readyState[c] = OPEN
             /\ (wsSubs[c] = {} \/ JStr(fanout[1].topic) \in wsSubs[c])) =>
                /\ Sends(fanout[1].sent, c) >= 1
                /\ c \notin fanout[1].threw =>
                      /\ received[c] # <<>>
                      /\ Last(received[c]) = Envelope(Last(hist))

\* send failed on the first connection of wss.clients and the second one,
\* later in the loop, holds the envelope
C10_Witness ==
    /\ fanout # <<>>
    /\ Len(clients) = 2
    /\ fanout[1].threw = {clients[1]}
    /\ received[clients[2]] # <<>>
    /\ Last(received[clients[2]]) = Envelope(Last(hist))

\* C11: a connection that is not open when an event is emitted is sent
\* nothing by that event's fan-out, and a connection that opens is sent
\* nothing on opening: whatever a connection is sent in a step is the
\* envelope of the event emitted in that step, and it was open then.
C11_NotOpenNeverReceives ==
    [][\A c \in Conns :
          /\ readyState[c] # OPEN => received'[c] = received[c]
          /\ received'[c] # received[c] =>
                /\ hist' # hist
                /\ \A i \in (Len(received[c]) + 1)..Len(received'[c]) :
                      received'[c][i] = Envelope(Last(hist'))]_vars

\* an event was emitted while a connection of wss.clients with no topic
\* filter was closing: it was sent nothing
C11_Witness ==
    /\ fanout # <<>>
    /\ \E c \in Conns :
          /\ readyState[c] = CLOSING
          /\ c \in Range(clients)
          /\ wsSubs[c] = {}
          /\ received[c] = <<>>
          /\ Sends(fanout[1].sent, c) = 0

\* C12: once a malformed control message has been handled, the subscription
\* set of its connection is as it was before, no connection has been sent
\* anything and the connection is open.
C12_MalformedControlIgnored ==
    lastCtrl # <<>> =>
        /\ lastCtrl[1].msg \in MalformedCtrl
        /\ wsSubs[lastCtrl[1].conn] = lastCtrl[1].before
        /\ received = lastCtrl[1].sentBefore
        /\ readyState[lastCtrl[1].conn] = OPEN

\* a message with an unknown action naming a/b was handled by a connection
\* subscribed to c/d alone
C12_Witness ==
    /\ lastCtrl # <<>>
    /\ lastCtrl[1].msg = CtrlPing
    /\ lastCtrl[1].before = {JStr(TopicCD)}
    /\ wsSubs[lastCtrl[1].conn] = {JStr(TopicCD)}
    /\ readyState[lastCtrl[1].conn] = OPEN

\* the response recorded last is that of a reset-password or validate request
\* with a body the schema accepts
TokenRequestAnswered ==
    /\ authReply # <<>>
    /\ authReply[1].op \in {"reset", "validate"}
    /\ authReply[1].wellFormed

\* C13: no token is accepted by reset-password more than once, and a reset
\* or validate request naming a token that was accepted before, made no
\* later than its expiry, is rejected as already used.
C13_ResetAcceptedOnce ==
    /\ \A t \in DOMAIN resetCount : resetCount[t] <= 1
    /\ (TokenRequestAnswered /\ authReply[1].prior >= 1 /\ ~authReply[1].late) =>
          /\ authReply[1].status = 400
          /\ authReply[1].error =
                IF authReply[1].op = "reset" THEN ErrUsedReset ELSE ErrUsed

\* a second reset-password request with an accepted token, before its expiry
C13_Witness ==
    /\ TokenRequestAnswered
    /\ authReply[1].op = "reset"
    /\ authReply[1].prior = 1
    /\ ~authReply[1].late
    /\ authReply[1].token \in DOMAIN resetTokens
    /\ resetTokens[authReply[1].token].used

\* C14: a token is accepted only while the clock has not passed its expiry;
\* a reset or validate request made after the expiry is rejected, as expired
\* if the token is still stored, and the token is not in the store after it,
\* whether the token was used or not.
C14_ExpiredRejectedAndRemoved ==
    TokenRequestAnswered =>
        /\ authReply[1].status = 200 => ~authReply[1].late
        /\ authReply[1].late =>
              /\ authReply[1].status = 400
              /\ authReply[1].token \notin DOMAIN resetTokens
              /\ authReply[1].present =>
                    authReply[1].error =
                        IF authReply[1].op = "reset" THEN ErrExpiredReset ELSE ErrExpired

\* a reset-password request after the expiry of a stored token that had been
\* used
C14_Witness ==
    /\ TokenRequestAnswered
    /\ authReply[1].op = "reset"
    /\ authReply[1].late
    /\ authReply[1].present
    /\ authReply[1].prior = 1
    /\ authReply[1].error = ErrExpiredReset
    /\ clock = expiryOf[authReply[1].token] + 1

\* C18: the identifiers returned by the calls of generateTopicId made so far
\* are pairwise distinct.
C18_GeneratedIdsDistinct ==
    \A i, j \in 1..Len(returnedIds) : i # j => returnedIds[i] # returnedIds[j]

DecimalDigits == {"0", "1", "2", "3", "4", "5", "6", "7", "8", "9"}
FifteenDigitStrings == [1..TopicIdLength -> DecimalDigits]

\* C19: a call of generateTopicId makes at most 1000 attempts; when the
\* candidate of the last of 1000 attempts is a recorded identifier the value
\* returned comes from the random fallback, otherwise it is the free candidate
\* the loop ended with; the value returned is 15 decimal digits.
C19_GenerateAlwaysReturns15Digits ==
    lastGen # <<>> =>
        LET g == lastGen[1]
            exhausted == g.attempts = maxAttempts /\ SetHas(g.before, g.candidate)
        IN  /\ g.attempts \in 1..maxAttempts
            /\ g.topicId \in FifteenDigitStrings
            /\ exhausted => \E hex \in HexFallbacks : g.topicId = Fallback(hex)
            /\ ~exhausted => g.topicId = g.candidate /\ ~SetHas(g.before, g.candidate)

\* a call whose 1000 attempts all met a recorded identifier
C19_Witness ==
    /\ lastGen # <<>>
    /\ lastGen[1].attempts = maxAttempts
    /\ SetHas(lastGen[1].before, lastGen[1].candidate)
    /\ Len(lastGen[1].topicId) = TopicIdLength

\* C20: validateTopicId answers true exactly for the strings of 15 decimal
\* digits, returned by generateTopicId or not.
C20_ValidateIffFifteenDigits ==
    lastValid # <<>> =>
        (lastValid[1].result <=> lastValid[1].topicId \in FifteenDigitStrings)

\* an identifier that generateTopicId never returned was found valid, after
\* identifiers had been generated
C20_Witness ==
    /\ lastValid # <<>>
    /\ lastValid[1].result
    /\ returnedIds # <<>>
    /\ ~SetHas(returnedIds, lastValid[1].topicId)

\* a request body one of whose widgets has a key mqttTopic of its own
CarriesBinding(body) ==
    /\ GetProp(body, Kwidgets).kind = "array"
    /\ \E i \in 1..Len(GetProp(body, Kwidgets).items) :
          HasKey(GetProp(body, Kwidgets).items[i].val, KmqttTopic)

\* C15: saving a dashboard whose widget carries an MQTT topic binding
\* (mqttTopic) succeeds, and GET by the returned id yields the widgets that
\* were sent, mqttTopic included
C15_BoundWidgetSavedAndRetrieved ==
    \A i \in DOMAIN dashReply :
        (dashReply[i].op = "save" /\ CarriesBinding(dashReply[i].request)) =>
            /\ dashReply[i].status = 200
            /\ GetOutcome(dashboards, sharedDashboards, dashReply[i].id).status = 200
            /\ GetProp(GetOutcome(dashboards, sharedDashboards, dashReply[i].id).dashboard,
                       Kwidgets)
                   = GetProp(dashReply[i].request, Kwidgets)

\* C16: the widgets of every shared snapshot are the widgets its dashboard
\* had when it was published, whatever was done to the dashboard since
\* (a later update of the dashboard in particular)
C16_SnapshotKeepsPublishTimeWidgets ==
    \A s \in DOMAIN sharedDashboards :
        /\ s \in DOMAIN publishedAs
        /\ GetProp(sharedDashboards[s], Kwidgets) = publishedAs[s]

\* a published dashboard has just been updated, and its widgets now differ
\* from those of its snapshot
C16_Witness ==
    /\ dashReply # <<>>
    /\ dashReply[1].op = "update"
    /\ dashReply[1].status = 200
    /\ \E id \in DOMAIN dashboards :
          /\ GetProp(dashboards[id], KisPublished) = JTrue
          /\ GetProp(dashboards[id], KshareableId).str \in DOMAIN sharedDashboards
          /\ GetProp(sharedDashboards[GetProp(dashboards[id], KshareableId).str], Kwidgets)
                 # GetProp(dashboards[id], Kwidgets)

\* C17: deleting a published dashboard removes the snapshot stored under its
\* shareableId and no other; deleting an unpublished dashboard leaves the
\* shared-dashboard collection as it was
C17_DeleteRemovesOwnSnapshotOnly ==
    [][\A id \in DOMAIN dashboards :
          DeleteDashboard(id) =>
              IF GetProp(dashboards[id], KisPublished) = JTrue
              THEN /\ DOMAIN sharedDashboards' =
                         DOMAIN sharedDashboards \ {GetProp(dashboards[id], KshareableId).str}
                   /\ \A s \in DOMAIN sharedDashboards' :
                         sharedDashboards'[s] = sharedDashboards[s]
              ELSE sharedDashboards' = sharedDashboards]_vars

\* a delete has been answered with success and a snapshot that was published
\* is gone from the collection
C17_Witness ==
    /\ dashReply # <<>>
    /\ dashReply[1].op = "delete"
    /\ dashReply[1].status = 200
    /\ \E s \in DOMAIN publishedAs : s \notin DOMAIN sharedDashboards
\* C21: while the upstream client is connected, the body of GET
\* /api/mqtt/health, parsed as the client of the API parses it, has a
\* top-level field connected equal to true and a top-level subscriptions list
C21_HealthBodyTopLevelConnected ==
    isConnected =>
        /\ JsonParse(HealthResponse).ok
        /\ GetProp(JsonParse(HealthResponse).val, Kconnected) = JTrue
        /\ GetProp(JsonParse(HealthResponse).val, Ksubscriptions).kind = "array"
\* C22: getHealth() reports connected = true exactly when the last connect or
\* close event of the current client was a connect (no client after a
\* shutdown), and knownTopics is the number of distinct topics a message was
\* received on
C22_HealthReportsStateAndTopics ==
    /\ (GetProp(getHealth, Kconnected) = JTrue) <=> (client = "connected")
    /\ GetProp(getHealth, Kconnected) \in {JTrue, JFalse}
    /\ GetProp(getHealth, KknownTopics) =
           JNum(Cardinality({hist[i].topic : i \in 1..Len(hist)}))

\* two messages were received on one topic and the connection was lost since
C22_Witness ==
    /\ Len(hist) = 2
    /\ hist[1].topic = hist[2].topic
    /\ client = "closed"
    /\ GetProp(getHealth, KknownTopics) = JNum(1)
\* C23: a client whose connection was lost, or whose attempt failed, is
\* connected again later, whatever the number of attempts that fail before
\* (or shutdown has ended the client).
C23_LostConnectionRetriedUntilConnected ==
    (client = "closed") ~> (client = "connected" \/ client = NoClient)

\* the client is connected again after a loss: the subscribes its connect
\* issued are not answered yet, and one of an earlier connect was granted
C23_Witness ==
    /\ client = "connected"
    /\ ~wasShutdown
    /\ subscriptions # <<>>
    /\ brokerSubs = {}
    /\ subReqs # EmptyBag
\* C24: a step that changes the state of the upstream client (close,
\* reconnect, connect, shutdown) sends nothing downstream, and whatever a
\* step sends to a connection is the envelope of the broker message handled
\* in that step.
C24_ConnectivityEventsSendNothing ==
    [][/\ client' # client => received' = received
       /\ \A c \in Conns :
             received'[c] # received[c] =>
                /\ Len(hist') = Len(hist) + 1
                /\ \E n \in 1..listeners :
                      received'[c] = received[c] \o [i \in 1..n |-> Envelope(hist'[Len(hist')])]]_vars

\* the upstream connection was lost while an open downstream connection
\* held an envelope
C24_Witness ==
    /\ client \in {"closed", "reconnecting"}
    /\ \E c \in Conns :
          /\ readyState[c] = OPEN
          /\ received[c] # <<>>
          /\ received[c][1].type = "mqtt"
\* the step ends with the reply of the route op
Replied(op) == dashReply' # <<>> /\ dashReply'[1].op = op

\* the reply to the request just handled is the not-found result, and the
\* request changed neither map
NotFoundUnchanged ==
    /\ dashReply'[1].status = 404
    /\ dashReply'[1].error = ErrNotFound
    /\ dashboards' = dashboards
    /\ sharedDashboards' = sharedDashboards

\* the reply is the first validation error of the body, and the request
\* changed neither map
RejectedUnchanged(error) ==
    /\ dashReply'[1].status = 400
    /\ dashReply'[1].error = error
    /\ dashboards' = dashboards
    /\ sharedDashboards' = sharedDashboards

\* C25 as stated: every update, publish or delete request that names an id
\* absent from the dashboard map is answered 404 "Dashboard not found" and
\* changes neither map.
C25_MissingIdAlwaysNotFound ==
    [][\A id \in DashboardIds \ DOMAIN dashboards :
          /\ \A body \in UpdateBodies :
                (Replied("update") /\ UpdateDashboard(id, body)) => NotFoundUnchanged
          /\ \A body \in PublishBodies(id) :
                (Replied("publish") /\ PublishDashboard(body)) => NotFoundUnchanged
          /\ (Replied("delete") /\ DeleteDashboard(id)) => NotFoundUnchanged]_vars

\* C25: a delete request, and an update or publish request whose body
\* passes validation, that names an id absent from the dashboard map is
\* answered 404 "Dashboard not found"; an update or publish request whose
\* body fails validation is answered 400 with the validation error; none of
\* them changes either map.
C25_MissingIdNotFoundAfterValidation ==
    [][\A id \in DashboardIds \ DOMAIN dashboards :
          /\ \A body \in UpdateBodies :
                (Replied("update") /\ UpdateDashboard(id, body)) =>
                    IF saveDashboardSchema(body) = NoError
                    THEN NotFoundUnchanged
                    ELSE RejectedUnchanged(saveDashboardSchema(body))
          /\ \A body \in PublishBodies(id) :
                (Replied("publish") /\ PublishDashboard(body)) =>
                    IF publishDashboardSchema(body) = NoError
                    THEN NotFoundUnchanged
                    ELSE RejectedUnchanged(publishDashboardSchema(body))
          /\ (Replied("delete") /\ DeleteDashboard(id)) => NotFoundUnchanged]_vars

\* a publish request naming an absent id was answered not-found while the
\* map held another dashboard
C25_Witness ==
    /\ dashReply # <<>>
    /\ dashReply[1].op = "publish"
    /\ dashReply[1].status = 404
    /\ dashReply[1].error = ErrNotFound
    /\ dashboards # <<>>
    /\ MissingId \notin DOMAIN dashboards
\* the entries of a comma-separated list: the stretches i..j of the text that
\* hold no comma and no whitespace at either end, and that only whitespace
\* separates from the comma, or the end of the text, on either side
ListEntries(s) ==
    {SubSeq(s, i, j) : <<i, j>> \in
        {p \in (1..Len(s)) \X (1..Len(s)) :
            /\ p[1] <= p[2]
            /\ \A k \in p[1]..p[2] : s[k] # ","
            /\ ~IsTrimWs(s[p[1]]) /\ ~IsTrimWs(s[p[2]])
            /\ \E a \in 1..p[1] :
                  /\ a = 1 \/ s[a - 1] = ","
                  /\ \A k \in a..(p[1] - 1) : IsTrimWs(s[k])
            /\ \E b \in p[2]..Len(s) :
                  /\ b = Len(s) \/ s[b + 1] = ","
                  /\ \A k \in (p[2] + 1)..b : IsTrimWs(s[k])}}

\* C26: a connection opened with a topic list is subscribed to exactly the
\* non-empty trimmed entries of the list, and to nothing when the list is
\* absent or empty.
C26_InitialSubscriptionsAreListEntries ==
    [][\A c \in Conns : \A q \in Queries :
          OnWsConnection(c, q) =>
              /\ wsSubs'[c] = {JStr(t) : t \in ListEntries(q)}
              /\ q = QueryNone => wsSubs'[c] = {}]_vars

\* a connection given " a/b ,,c/d" is open and subscribed to "a/b" and "c/d",
\* and another, given no list, to nothing
C26_Witness ==
    \E c, d \in Conns :
        /\ readyState[c] = OPEN /\ wsSubs[c] = {JStr(TopicAB), JStr(TopicCD)}
        /\ readyState[d] = OPEN /\ wsSubs[d] = {}
        /\ lastCtrl = <<>> /\ fanout = <<>> /\ hist = <<>>
\* C27: the upstream client has at most one 'message' listener however often
\* init is called; a fan-out calls send at most once on a connection, and no
\* connection holds two envelopes of the same event.
C27_AtMostOncePerConnection ==
    /\ listeners <= 1
    /\ wss <=> listeners = 1
    /\ fanout # <<>> => \A c \in Conns : Sends(fanout[1].sent, c) <= 1
    /\ \A c \in Conns : \A i, j \in 1..Len(received[c]) :
          received[c][i].receivedAt = received[c][j].receivedAt => i = j

\* an event was fanned out to two open connections, one send each
C27_Witness ==
    /\ wss
    /\ fanout # <<>>
    /\ \E c, d \in Conns :
          /\ c # d
          /\ Sends(fanout[1].sent, c) = 1 /\ Len(received[c]) = 1
          /\ Sends(fanout[1].sent, d) = 1 /\ Len(received[d]) = 1
\* C28: a client is created only when none exists, and the client is given
\* up only by shutdown: a step that leaves a client in the state
\* "connecting" started without a client or with that same connecting
\* client, and every call made while a client exists keeps it.
C28_OneClientUntilShutdown ==
    [][/\ (client' = "connecting" /\ client # "connecting") => client = NoClient
       /\ (client # NoClient /\ client' = NoClient) => (shutdown /\ wasShutdown')
       /\ (\/ routerUse
           \/ \E t \in Topics : subscribe(t)
           \/ \E t \in Topics, m \in PlainMessages : publish(t, m)) =>
             /\ client' # NoClient
             /\ client # NoClient => client' = client]_vars

\* no shutdown so far: the one client lost its connection and two subscribe
\* calls were made since
C28_Witness ==
    /\ ~wasShutdown
    /\ client = "closed"
    /\ lastConnect # <<>>
    /\ Len(deferred) = 2
\* C29: the handlers run one at a time, each to its end. A delete leaves
\* the id absent and an update adds no id to the map, so whichever of an
\* update and a delete of one dashboard runs second, the dashboard is absent
\* after it: the update that follows the delete is answered not-found.
C29_UpdateNeverRecreatesDeleted ==
    [][\A id \in DashboardIds :
          /\ (Replied("delete") /\ DeleteDashboard(id)) => id \notin DOMAIN dashboards'
          /\ \A body \in UpdateBodies :
                (Replied("update") /\ UpdateDashboard(id, body)) =>
                    /\ DOMAIN dashboards' = DOMAIN dashboards
                    /\ id \in JustDeleted =>
                          /\ id \notin DOMAIN dashboards'
                          /\ dashReply'[1].status \in {400, 404}]_vars

\* an update of the dashboard just deleted, with a body that passes
\* validation, was answered not-found and the dashboard is absent
C29_Witness ==
    /\ dashReply # <<>>
    /\ dashReply[1].op = "update"
    /\ dashReply[1].status = 404
    /\ dashReply[1].id # MissingId
    /\ dashReply[1].id \notin DOMAIN dashboards
\* C30: the handlers run one at a time, each to its end. The step that
\* accepts a token is a reset-password request that finds the used flag
\* clear and leaves it set, it is the first acceptance of the token, and no
\* step clears the flag of a stored token: of two requests with the same
\* token and email, in either order, the second finds the flag set.
C30_CheckAndSetInOneStep ==
    [][\A t \in DOMAIN resetCount :
          /\ resetCount'[t] # resetCount[t] =>
                /\ resetCount[t] = 0 /\ resetCount'[t] = 1
                /\ t \in DOMAIN resetTokens /\ ~resetTokens[t].used
                /\ t \in DOMAIN resetTokens' /\ resetTokens'[t].used
                /\ authReply'[1].op = "reset"
                /\ authReply'[1].token = t
                /\ authReply'[1].status = 200
          /\ (t \in DOMAIN resetTokens /\ t \in DOMAIN resetTokens' /\ resetTokens[t].used) =>
                /\ resetTokens'[t].used
                /\ resetCount'[t] = resetCount[t]]_vars

\* a second reset-password request with the token and its email, made in the
\* millisecond of the one that was accepted, was rejected as used
C30_Witness ==
    /\ authReply # <<>>
    /\ authReply[1].op = "reset"
    /\ authReply[1].status = 400
    /\ authReply[1].error = ErrUsedReset
    /\ authReply[1].token \in DOMAIN resetTokens
    /\ resetTokens[authReply[1].token].usedAt = <<clock>>
    /\ resetCount[authReply[1].token] = 1
\* C31: once a delete has been answered with success, no snapshot in the
\* shared-dashboard collection names the deleted dashboard as its
\* originalDashboardId.
C31_NoSnapshotOfDeletedDashboard ==
    (dashReply # <<>> /\ dashReply[1].op = "delete" /\ dashReply[1].status = 200) =>
        \A s \in DOMAIN sharedDashboards :
            GetProp(sharedDashboards[s], KoriginalDashboardId) # JStr(dashReply[1].id)
\* C32: a publish that is answered with success leaves the owner, createdAt
\* and every field its body does not name as they were stored; with neither
\* layout nor layouts in the body, the stored layout is as before.
C32_PublishKeepsUnnamedFields ==
    [][\A id \in DOMAIN dashboards : \A body \in FieldPublishBodies(id) :
          (Replied("publish") /\ dashReply'[1].status = 200 /\ PublishDashboard(body)) =>
              /\ GetProp(dashboards'[id], KuserId) = GetProp(dashboards[id], KuserId)
              /\ GetProp(dashboards'[id], KcreatedAt) = GetProp(dashboards[id], KcreatedAt)
              /\ ~HasKey(body, KdeviceCount) =>
                    GetProp(dashboards'[id], KdeviceCount) = GetProp(dashboards[id], KdeviceCount)
              /\ (~HasKey(body, Klayout) /\ ~HasKey(body, Klayouts)) =>
                    GetProp(dashboards'[id], Klayout) = GetProp(dashboards[id], Klayout)]_vars
\* Object.keys(obj)
ObjectKeys(obj) == {obj.items[i].key : i \in 1..Len(obj.items)}

\* C33: an update that is answered with success stores, under the id of the
\* path, a dashboard whose id is the id of the path, whose updatedAt is the
\* time of the request, and whose every other field is the one of the body
\* if the body has it and the stored one otherwise; owner, createdAt and the
\* publish state are as stored, and the snapshots are untouched.
C33_UpdateKeepsIdentityAndPublishState ==
    [][\A id \in DOMAIN dashboards : \A body \in FieldUpdateBodies :
          (Replied("update") /\ dashReply'[1].status = 200 /\ UpdateDashboard(id, body)) =>
              /\ DOMAIN dashboards' = DOMAIN dashboards
              /\ GetProp(dashboards'[id], Kid) = JStr(id)
              /\ GetProp(dashboards'[id], KupdatedAt) = toISOString(clock)
              /\ \A k \in {KuserId, KcreatedAt, KisPublished, KshareableId, KsharePassword} :
                    GetProp(dashboards'[id], k) = GetProp(dashboards[id], k)
              /\ \A k \in (ObjectKeys(dashboards[id]) \cup ObjectKeys(dashboards'[id]))
                              \ {Kid, KupdatedAt} :
                    GetProp(dashboards'[id], k) =
                        IF HasKey(body, k) THEN GetProp(body, k) ELSE GetProp(dashboards[id], k)
              /\ sharedDashboards' = sharedDashboards]_vars

\* a published dashboard was updated a millisecond after it was saved, with a
\* body that names another id
C33_Witness ==
    /\ dashReply # <<>>
    /\ dashReply[1].op = "update"
    /\ dashReply[1].status = 200
    /\ GivenId \in DOMAIN dashboards
    /\ GetProp(dashboards[GivenId], Kid) = JStr(GivenId)
    /\ GetProp(dashboards[GivenId], Kname) = GetProp(UpdateOtherIdBody, Kname)
    /\ GetProp(dashboards[GivenId], KisPublished) = JTrue
    /\ GetProp(dashboards[GivenId], KdeviceCount) = JNum(2)
    /\ GetProp(dashboards[GivenId], KcreatedAt) = toISOString(0)
    /\ GetProp(dashboards[GivenId], KupdatedAt) = toISOString(1)
\* the reply to the request just handled is 403 with the route's message,
\* and the request changed neither map
Unauthorized(error) ==
    /\ dashReply'[1].status = 403
    /\ dashReply'[1].error = error
    /\ dashboards' = dashboards
    /\ sharedDashboards' = sharedDashboards

\* the callers whose user id is not the owner of the stored dashboard id
Strangers(id) == {user \in Callers : JStr(UserId(user)) # GetProp(dashboards[id], KuserId)}

\* C34 as stated: every update, publish, delete or get-by-id request on a
\* stored dashboard by a caller who is not its owner is answered 403 and
\* changes neither map.
C34_StrangerAlwaysUnauthorized ==
    [][\A id \in DOMAIN dashboards : \A user \in Strangers(id) :
          /\ \A body \in OwnerUpdateBodies :
                (Replied("update") /\ UpdateDashboardAs(user, id, body)) =>
                    Unauthorized(ErrUnauthorizedUpdate)
          /\ \A body \in PublishBodies(id) :
                (Replied("publish") /\ PublishDashboardAs(user, body)) =>
                    Unauthorized(ErrUnauthorizedPublish)
          /\ (Replied("delete") /\ DeleteDashboardAs(user, id)) =>
                Unauthorized(ErrUnauthorizedDelete)
          /\ (Replied("get") /\ GetDashboardAs(user, id)) =>
                Unauthorized(ErrUnauthorizedAccess)]_vars

\* C34: a delete or get-by-id request, and an update or publish request
\* whose body passes validation, on a stored dashboard by a caller who is
\* not its owner is answered 403; an update or publish request whose body
\* fails validation is answered 400 with the validation error; none of them
\* changes either map.
C34_StrangerUnauthorizedAfterValidation ==
    [][\A id \in DOMAIN dashboards : \A user \in Strangers(id) :
          /\ \A body \in OwnerUpdateBodies :
                (Replied("update") /\ UpdateDashboardAs(user, id, body)) =>
                    IF saveDashboardSchema(body) = NoError
                    THEN Unauthorized(ErrUnauthorizedUpdate)
                    ELSE RejectedUnchanged(saveDashboardSchema(body))
          /\ \A body \in PublishBodies(id) :
                (Replied("publish") /\ PublishDashboardAs(user, body)) =>
                    IF publishDashboardSchema(body) = NoError
                    THEN Unauthorized(ErrUnauthorizedPublish)
                    ELSE RejectedUnchanged(publishDashboardSchema(body))
          /\ (Replied("delete") /\ DeleteDashboardAs(user, id)) =>
                Unauthorized(ErrUnauthorizedDelete)
          /\ (Replied("get") /\ GetDashboardAs(user, id)) =>
                Unauthorized(ErrUnauthorizedAccess)]_vars

\* a delete of a published dashboard owned by "u1" was refused, and the
\* dashboard and its snapshot are still stored
C34_Witness ==
    /\ dashReply # <<>>
    /\ dashReply[1].op = "delete"
    /\ dashReply[1].status = 403
    /\ dashReply[1].error = ErrUnauthorizedDelete
    /\ GivenId \in DOMAIN dashboards
    /\ GetProp(dashboards[GivenId], KuserId) = JStr(UserOne)
    /\ GetProp(dashboards[GivenId], KisPublished) = JTrue
    /\ GetProp(dashboards[GivenId], KshareableId).str \in DOMAIN sharedDashboards
\* C35: usedIds never holds more than 10000 identifiers; a call that makes
\* it 10001 leaves the 5000 added last, the returned one the last of them,
\* in the order they were added, and any other call adds the returned
\* identifier and removes nothing.
C35_IssuedIdsPrunedToNewest ==
    /\ Len(usedIds) <= PruneAbove
    /\ lastGen # <<>> =>
          LET before == lastGen[1].before
              added == IF SetHas(before, lastGen[1].topicId) THEN 0 ELSE 1
          IN  IF Len(before) + added > PruneAbove
              THEN /\ Len(usedIds) = PruneKeep
                   /\ usedIds[PruneKeep] = lastGen[1].topicId
                   /\ \A i \in 1..(PruneKeep - 1) :
                         usedIds[i] = before[Len(before) - (PruneKeep - 1) + i]
              ELSE /\ Len(usedIds) = Len(before) + added
                   /\ \A i \in 1..Len(before) : usedIds[i] = before[i]
                   /\ SetHas(usedIds, lastGen[1].topicId)

\* the call that found 10000 identifiers left 5000
C35_Witness ==
    /\ lastGen # <<>>
    /\ Len(lastGen[1].before) = PruneAbove
    /\ Len(usedIds) = PruneKeep
    /\ usedIds[1] = lastGen[1].before[PruneKeep + 2]
\* C36: every key of the dashboard map is fifteen decimal digits and the
\* dashboard stored under a key has that key as its id, whatever saves
\* (without an id, with a valid one, with one that is not valid), updates,
\* publishes and deletes came before.
C36_KeysAreFifteenDigitIdsOfTheirDashboards ==
    \A k \in DOMAIN dashboards :
        /\ Len(k) = TopicIdLength
        /\ \A i \in 1..Len(k) : IsDigit(k[i])
        /\ HasKey(dashboards[k], Kid)
        /\ GetProp(dashboards[k], Kid) = JStr(k)

\* a save that named an id of fourteen digits was stored under a generated id
C36_Witness ==
    /\ dashReply # <<>>
    /\ dashReply[1].op = "save"
    /\ dashReply[1].request = SaveBadIdBody
    /\ dashReply[1].status = 200
    /\ dashReply[1].id # Digits14
    /\ dashReply[1].id \in DOMAIN dashboards
\* C37: a connection whose subscription set an unsubscribe has left empty
\* is sent the event of every fan-out, whatever its topic, once by each
\* listener.
C37_EmptiedByUnsubscribeReceivesAll ==
    fanout # <<>> =>
        \A c \in emptied :
            /\ wsSubs[c] = {}
            /\ Len(SelectSeq(fanout[1].sent, LAMBDA d : d = c)) = listeners

\* a connection that had subscribed to one topic and unsubscribed from it
\* was sent an event
C37_Witness ==
    /\ fanout # <<>>
    /\ \E c \in emptied :
          /\ c \in Range(fanout[1].sent)
          /\ c \notin fanout[1].threw
          /\ received[c] # <<>>
          /\ received[c][Len(received[c])].topic = fanout[1].topic
\* C38: a step in which the subscription set of an open connection changes
\* (a subscribe or unsubscribe control message on it) leaves the set of
\* every other connection, the upstream client's subscription set and
\* latestByTopic as they were.
C38_ControlMessageChangesOneSetOnly ==
    [][\A c \in Conns :
          (readyState[c] = OPEN /\ wsSubs'[c] # wsSubs[c]) =>
              /\ \A d \in Conns \ {c} : wsSubs'[d] = wsSubs[d]
              /\ subscriptions' = subscriptions
              /\ latestByTopic' = latestByTopic]_vars

\* an unsubscribe has emptied one connection's set while another open
\* connection, the upstream client and the cache hold theirs
C38_Witness ==
    \E c \in emptied : \E d \in Conns \ {c} :
        /\ readyState[d] = OPEN
        /\ wsSubs[d] # {}
        /\ fanout = <<>>
        /\ subscriptions # <<>>
        /\ latestByTopic # <<>>
\* C39: an unsubscribe(topic) call made while the upstream client is not
\* connected leaves this.subscriptions, the deferred subscribes and the
\* requests in flight as they were, and the 'connect' event that follows
\* issues client.subscribe for every topic whose subscribe was deferred,
\* those unsubscribed in between included.
C39_OfflineUnsubscribeChangesNothing ==
    [][/\ (offlineUnsubs' # offlineUnsubs /\ offlineUnsubs' # {}) =>
             /\ subscriptions' = subscriptions
             /\ deferred' = deferred
             /\ unsubReqs' = unsubReqs
             /\ subReqs' = subReqs
             /\ brokerSubs' = brokerSubs
             /\ client' = client
             /\ isConnected' = isConnected
       /\ (~isConnected /\ isConnected') =>
             /\ offlineUnsubs \cap Range(deferred) \subseteq BagToSet(subReqs')
             /\ \A t \in offlineUnsubs \cap Range(deferred) :
                   \E i \in 1..Len(lastConnect'[1].issued) : lastConnect'[1].issued[i] = t]_vars

\* the client connected after subscribe(t) was deferred and unsubscribe(t)
\* was called, and client.subscribe(t) was issued
C39_Witness ==
    /\ lastConnect # <<>>
    /\ lastConnect[1].unsubscribed
    /\ lastConnect[1].wanted # {}
    /\ lastConnect[1].wanted \subseteq Range(lastConnect[1].issued)
    /\ lastConnect[1].wanted \subseteq BagToSet(subReqs)
    /\ subscriptions = <<>>
\* C40: a reset-password request refused for its email, and a
\* validate-reset-token request on a stored token that has not expired,
\* leave the token stored with its used flag as it was; and a well-formed
\* reset-password request on a stored token that has not expired and was
\* never accepted is refused for its email only, so that with the right
\* email it is accepted.
C40_RefusalsAndValidationsKeepUsedFlag ==
    [][(authReply' # <<>> /\ authReply'[1].op \in {"reset", "validate"}) =>
          LET reply == authReply'[1]
              t == reply.token
          IN  /\ ( /\ t \in DOMAIN resetTokens
                   /\ \/ reply.op = "reset" /\ reply.error = ErrEmailMismatch
                      \/ reply.op = "validate" /\ clock <= resetTokens[t].expiry ) =>
                    /\ t \in DOMAIN resetTokens'
                    /\ resetTokens'[t].used = resetTokens[t].used
                    /\ resetTokens'[t].expiry = resetTokens[t].expiry
              /\ ( /\ reply.op = "reset"
                   /\ reply.wellFormed /\ reply.present /\ ~reply.late
                   /\ reply.prior = 0 ) =>
                    \/ reply.status = 200
                    \/ reply.error = ErrEmailMismatch]_vars

\* a reset-password request was refused for its email after the token was
\* issued and before its expiry: the token is stored and unused
C40_Witness ==
    /\ authReply # <<>>
    /\ authReply[1].op = "reset"
    /\ authReply[1].error = ErrEmailMismatch
    /\ ~authReply[1].late
    /\ authReply[1].token \in DOMAIN resetTokens
    /\ ~resetTokens[authReply[1].token].used
    /\ clock <= resetTokens[authReply[1].token].expiry
    /\ clock > resetTokens[authReply[1].token].createdAt
=============================================================================
